---- MODULE Spec2Model ----
(***************************************************************************)
(* Interview relay backend (Backend/main.py, Backend/database.py).         *)
(*                                                                         *)
(* Spec        : concurrent websocket_interview handlers on one event      *)
(*               loop sharing the ConnectionManager; one action per        *)
(*               segment of the handler between two awaits.                *)
(* SpecToken   : ConnectionManager.get_cached_token against a moving clock *)
(*               and an identity provider that may fail.                   *)
(* SpecLatency : database.log_latency, one whole call per step.            *)
(* SpecStore   : database.log_latency as its three store operations,       *)
(*               issued by several store clients.                          *)
(* SpecPrompt  : the system prompt selection of websocket_interview and    *)
(*               generate_dynamic_prompt, over a set of configurations.    *)
(* SpecBuild   : generate_dynamic_prompt over every combination of          *)
(*               language, experience and proctoring flags.                *)
(* SpecRelay   : one connection from connect() through relay_messages      *)
(*               (both pumps, the timeout, cancellation) to its teardown.  *)
(* SpecRelayLive : the same with the progress the event loop and the clock *)
(*               guarantee, for what eventually happens.                   *)
(***************************************************************************)
EXTENDS Integers, Sequences, FiniteSets, TLC

(* ------------------------------ bounds -------------------------------- *)

\* Number of client connections, each served by one websocket_interview task.
NumHandlers == 2

\* main.py:48 reads the ceiling from the environment; the model runs with a
\* small one so that the ceiling is reached.
MAX_CONCURRENT_CONNECTIONS == 1

\* main.py:208  deque(maxlen=100)
HISTORY_MAXLEN == 100

\* Configuration tokens a client may present; "default" is the fallback token.
Tokens == {"default", "acme"}

\* Longest time, in minutes, one get_access_token() round trip may take.
MaxFetchMinutes == 1

\* Identity-provider round trips allowed in one run.
MaxFetches == 3

\* get_cached_token calls allowed in one run of SpecToken.
MaxTokenCalls == 4

\* Session ids handed out by the session routes.
NumSessions == 2

\* Latency measurements and network samples logged in one run, over all
\* sessions.
MaxLogs == 3

\* Connections that arrive in one run of SpecHistory.
MaxArrivals == 3

\* SpecHistory stops the clock here (minutes).
MaxHistoryClock == 2

\* Store clients running log_latency at the same time in SpecStore.
NumClients == 2

\* SpecToken stops the clock here (minutes).
MaxClock == 120

\* Granularity of the clock in SpecToken (minutes).
TickMinutes == 10

\* main.py:49 reads the relay timeout from the environment (1800 s by default);
\* the model runs with a short one, in seconds.
CONNECTION_TIMEOUT == 2

\* Longest time, in seconds, between acceptance and the start of the relay.
MaxSetupSeconds == 1

\* Frames read in one run of SpecRelay, over both directions.
MaxFrames == 3

\* main.py:246  timedelta(minutes=50)
CACHE_MINUTES == 50

\* main.py:244  "tokens valid for 1 hour"
TOKEN_VALID_MINUTES == 60

Handlers == 1..NumHandlers
SessionIds == 1..NumSessions
Clients == 1..NumClients

\* (userEndTime, aiStartTime) pairs a client reports, in milliseconds; the last
\* two come from clocks that disagree.
LatencyInputs == { <<1000, 1450>>, <<1600, 2150>>, <<3, 0>>, <<0, 0>> }

\* (speed_mbps, quality) pairs a client reports.
NetworkSamples == { <<5, "good">>, <<1, "poor">> }

\* Python's None, for an optional value held as a sequence of length <= 1.
None == <<>>

VARIABLES
    manager,            \* the ConnectionManager instance (main.py:260)
    clock,              \* datetime.now(), in minutes (in seconds in SpecRelay)
    provider_calls,     \* number of get_access_token() invocations so far
    interview_configs,  \* db.interview_configs: token -> document
    interview_sessions, \* db.interview_sessions: sessionId -> document
    conn,               \* per connection: the locals of its websocket_interview task
    token_calls,        \* SpecToken: get_cached_token calls made so far
    last_call,          \* SpecToken: what the latest get_cached_token call did
    client,             \* SpecStore: per store client, its position in log_latency
    last_return,        \* value returned by the latest log_latency call
    prompt,             \* SpecPrompt: one connection from its configuration to the setup message
    relay               \* SpecRelay: one connection from connect() to the release of its slot

\* conn[h] has the fields
\*   pc           the await the handler is suspended at ("done" after it returned)
\*   session_id   the uuid4 of line 409, distinct per connection
\*   token        the token query parameter
\*   access_token the local of line 507, None before
\*   close_code   code of the websocket.close the handler issued, 0 if none
\*   close_reason reason of that websocket.close, "" if none
\*   lookups      get_config_by_token calls that returned to this connection
\*   echoes       config messages sent to the client (send_json returned)
\*   fetches      get_access_token calls made for this connection
\*   connects     connect() calls made for this connection
\*   adds         add_connection calls made for this connection
\*   removes      remove_connection calls made for this connection

managerVars == <<manager, clock, provider_calls>>
dbVars      == <<interview_configs, interview_sessions>>
tokenVars   == <<token_calls, last_call>>
storeVars   == <<client, last_return>>
sessionVars == <<prompt, relay>>

vars == <<manager, clock, provider_calls, interview_configs, interview_sessions,
          conn, token_calls, last_call, client, last_return, prompt, relay>>

(* ------------------------------- dicts -------------------------------- *)
\* A document or a dict is a function from the keys it carries to their values.

\* {}
EmptyDict == [ k \in {} |-> TRUE ]

\* dict.get(key, default)
dict_get(d, key, default) == IF key \in DOMAIN d THEN d[key] ELSE default

(* ------------------------- ConnectionManager -------------------------- *)

\* Variant of deque_append for a plain list, which grows without limit.
deque_append_unbounded(d, e, maxlen) == Append(d, e)

\* collections.deque(maxlen=n).append: at capacity the oldest entry is dropped.
deque_append(d, e, maxlen) ==
    IF Len(d) < maxlen THEN Append(d, e) ELSE Append(Tail(d), e)

ConnectionManager_init ==
    [ active_connections |-> 0,
      total_connections  |-> 0,
      connection_history |-> <<>>,
      token_cache        |-> None,
      token_expiry       |-> None ]

can_accept_connection_le(m) == m.active_connections <= MAX_CONCURRENT_CONNECTIONS

can_accept_connection(m) == m.active_connections < MAX_CONCURRENT_CONNECTIONS

add_connection_nototal(m, now) ==
    [ m EXCEPT
        !.active_connections = @ + 1,
        !.connection_history =
            deque_append(@, [ timestamp |-> now, action |-> "connected",
                              active |-> m.active_connections + 1,
                              total  |-> m.total_connections ], HISTORY_MAXLEN) ]

add_connection(m, now) ==
    [ m EXCEPT
        !.active_connections = @ + 1,
        !.total_connections  = @ + 1,
        !.connection_history =
            deque_append(@, [ timestamp |-> now, action |-> "connected",
                              active |-> m.active_connections + 1,
                              total  |-> m.total_connections + 1 ], HISTORY_MAXLEN) ]

Max0(x) == IF x > 0 THEN x ELSE 0

remove_connection(m, now) ==
    [ m EXCEPT
        !.active_connections = Max0(@ - 1),
        !.connection_history =
            deque_append(@, [ timestamp |-> now, action |-> "disconnected",
                              active |-> Max0(m.active_connections - 1) ],
                         HISTORY_MAXLEN) ]

(* --------------------------- credentials ------------------------------ *)

\* get_access_token(): None when no credentials are configured or the refresh
\* raises, otherwise the bearer token just issued.  A token is modelled by the
\* provider round trip that issued it and its issue time.
get_access_token(ok, n, issuedAt) ==
    IF ok THEN << [ id |-> n, issued |-> issuedAt ] >> ELSE None

\* `not x` of Python for an optional value.
Truthy(x) == x # None

\* Variant that drops the cached credential when the refresh fails.
get_cached_token_clear(m, now, fetched) ==
    IF Truthy(m.token_cache) /\ Truthy(m.token_expiry) /\ now < m.token_expiry[1]
    THEN [ manager |-> m, ret |-> m.token_cache, fetch |-> FALSE ]
    ELSE IF Truthy(fetched)
         THEN [ manager |-> [ m EXCEPT !.token_cache  = fetched,
                                       !.token_expiry = << now + CACHE_MINUTES >> ],
                ret |-> fetched, fetch |-> TRUE ]
         ELSE [ manager |-> [ m EXCEPT !.token_cache = None, !.token_expiry = None ],
                ret |-> None, fetch |-> TRUE ]

\* Variant that still serves the cached credential at the expiry instant.
get_cached_token_le(m, now, fetched) ==
    IF Truthy(m.token_cache) /\ Truthy(m.token_expiry) /\ now <= m.token_expiry[1]
    THEN [ manager |-> m, ret |-> m.token_cache, fetch |-> FALSE ]
    ELSE IF Truthy(fetched)
         THEN [ manager |-> [ m EXCEPT !.token_cache  = fetched,
                                       !.token_expiry = << now + CACHE_MINUTES >> ],
                ret |-> fetched, fetch |-> TRUE ]
         ELSE [ manager |-> m, ret |-> None, fetch |-> TRUE ]

\* Variant that keeps the credential for its nominal lifetime and ten minutes
\* more.
get_cached_token_long(m, now, fetched) ==
    IF Truthy(m.token_cache) /\ Truthy(m.token_expiry) /\ now < m.token_expiry[1]
    THEN [ manager |-> m, ret |-> m.token_cache, fetch |-> FALSE ]
    ELSE IF Truthy(fetched)
         THEN [ manager |-> [ m EXCEPT !.token_cache  = fetched,
                                       !.token_expiry =
                                           << now + TOKEN_VALID_MINUTES + 10 >> ],
                ret |-> fetched, fetch |-> TRUE ]
         ELSE [ manager |-> m, ret |-> None, fetch |-> TRUE ]

\* get_cached_token with the provider's answer `fetched` supplied by the caller
\* (used only on the refresh path).  Result: the manager afterwards, the value
\* returned, and whether get_access_token was invoked.
\* Variant of get_cached_token that tests the cache as it was before another
\* handler ran, as a refresh that suspends would: the test sees no token.
get_cached_token_stale_test(m, now, fetched) ==
    IF Truthy(fetched)
    THEN [ manager |-> [ m EXCEPT !.token_cache  = fetched,
                                  !.token_expiry = << now + CACHE_MINUTES >> ],
           ret |-> fetched, fetch |-> TRUE ]
    ELSE [ manager |-> m, ret |-> None, fetch |-> TRUE ]

get_cached_token(m, now, fetched) ==
    IF Truthy(m.token_cache) /\ Truthy(m.token_expiry) /\ now < m.token_expiry[1]
    THEN [ manager |-> m, ret |-> m.token_cache, fetch |-> FALSE ]
    ELSE IF Truthy(fetched)
         THEN [ manager |-> [ m EXCEPT !.token_cache  = fetched,
                                       !.token_expiry = << now + CACHE_MINUTES >> ],
                ret |-> fetched, fetch |-> TRUE ]
         ELSE [ manager |-> m, ret |-> None, fetch |-> TRUE ]

(* ----------------------------- database ------------------------------- *)

\* create_config: the document as inserted, active and not yet used.
create_config(config_data) ==
    [ k \in DOMAIN config_data \cup {"isActive", "usageCount"} |->
        IF k = "isActive" THEN TRUE
        ELSE IF k = "usageCount" THEN 0
        ELSE config_data[k] ]

\* delete_config: a soft delete, the document stays in the collection.
delete_config(config) == [ config EXCEPT !["isActive"] = FALSE ]

\* line 223: find_one({"token": token, "isActive": True}).
find_one_config(configs, tok) ==
    IF tok \in DOMAIN configs /\ dict_get(configs[tok], "isActive", FALSE) = TRUE
    THEN << configs[tok] >>
    ELSE None

\* get_config_by_token: the active document carrying the token, or None; a
\* document that is found has its usageCount incremented in the collection.
\* (Documents are held with their AI settings already merged in.)
get_config_by_token(configs, tok) ==
    LET config == find_one_config(configs, tok)
    IN  [ config  |-> config,
          configs |-> IF Truthy(config)
                      THEN [configs EXCEPT ![tok] =
                              [@ EXCEPT !["usageCount"] = @ + 1]]
                      ELSE configs ]

\* create_session: insert_one of a fresh document with empty logs and zero
\* aggregates.
create_session(sessions, config_token, session_id, now) ==
    sessions @@ (session_id :>
        [ configToken      |-> config_token,
          sessionId        |-> session_id,
          startedAt        |-> now,
          endedAt          |-> None,
          latencyLogs      |-> <<>>,
          averageLatencyMs |-> 0,
          maxLatencyMs     |-> 0,
          minLatencyMs     |-> 0,
          networkLogs      |-> <<>> ])

(* --------------------------- log_latency ------------------------------ *)

RECURSIVE py_sum(_)
py_sum(xs) == IF xs = <<>> THEN 0 ELSE Head(xs) + py_sum(Tail(xs))

py_max(xs) == CHOOSE x \in { xs[i] : i \in 1..Len(xs) } :
                 \A j \in 1..Len(xs) : xs[j] <= x

py_min(xs) == CHOOSE x \in { xs[i] : i \in 1..Len(xs) } :
                 \A j \in 1..Len(xs) : x <= xs[j]

\* Variant of py_int_div that rounds down, as a // b does.
py_floor_div(a, b) == a \div b

\* int(a / b) for b > 0: the quotient rounded toward zero.
py_int_div(a, b) == IF a >= 0 THEN a \div b ELSE -((-a) \div b)

\* Variant of push_latency that takes measurements only while the session has
\* not been ended.
push_latency_open_only(sessions, sid, entry) ==
    IF sid \in DOMAIN sessions /\ sessions[sid].endedAt = None
    THEN [sessions EXCEPT ![sid].latencyLogs = Append(@, entry)]
    ELSE sessions

\* lines 352-357: update_one with $push; matches nothing for an unknown id.
push_latency(sessions, sid, entry) ==
    IF sid \in DOMAIN sessions
    THEN [sessions EXCEPT ![sid].latencyLogs = Append(@, entry)]
    ELSE sessions

\* lines 360-363: find_one, reduced to the latencies the caller reads from it.
find_latencies(sessions, sid) ==
    IF sid \in DOMAIN sessions
    THEN << [ i \in 1..Len(sessions[sid].latencyLogs) |->
                sessions[sid].latencyLogs[i].latencyMs ] >>
    ELSE None

\* lines 361-374: with a session found and a non-empty log, update_one with
\* $set of the three aggregates computed from what was read.
set_latency_stats(sessions, sid, found) ==
    IF Truthy(found) /\ found[1] # <<>> /\ sid \in DOMAIN sessions
    THEN [sessions EXCEPT
            ![sid].averageLatencyMs = py_int_div(py_sum(found[1]), Len(found[1])),
            ![sid].maxLatencyMs     = py_max(found[1]),
            ![sid].minLatencyMs     = py_min(found[1])]
    ELSE sessions

\* Variant of log_entry that never stores a negative latency.
log_entry_clamped(user_end_time, ai_start_time, now) ==
    [ timestamp |-> now, userEndTime |-> user_end_time, aiStartTime |-> ai_start_time,
      latencyMs |-> Max0(ai_start_time - user_end_time) ]

log_entry(user_end_time, ai_start_time, now) ==
    [ timestamp |-> now, userEndTime |-> user_end_time, aiStartTime |-> ai_start_time,
      latencyMs |-> ai_start_time - user_end_time ]

\* log_latency as one uninterrupted call.
log_latency(sessions, sid, user_end_time, ai_start_time, now) ==
    LET pushed == push_latency(sessions, sid,
                               log_entry(user_end_time, ai_start_time, now))
        found  == find_latencies(pushed, sid)
    IN  [ sessions |-> set_latency_stats(pushed, sid, found),
          ret      |-> ai_start_time - user_end_time ]

(* ------------- log_network_quality, end_session, get_session ---------- *)

\* Variant of log_network_quality that keeps the latest speed as an aggregate
\* of the session.
log_network_quality_with_stats(sessions, sid, speed_mbps, quality, now) ==
    IF sid \in DOMAIN sessions
    THEN [sessions EXCEPT ![sid].networkLogs =
            Append(@, [ timestamp |-> now, speedMbps |-> speed_mbps,
                        quality |-> quality ]),
                          ![sid].minLatencyMs = speed_mbps]
    ELSE sessions

\* database.py 379-390: update_one with $push of one sample onto networkLogs;
\* matches nothing for an unknown id.
log_network_quality(sessions, sid, speed_mbps, quality, now) ==
    IF sid \in DOMAIN sessions
    THEN [sessions EXCEPT ![sid].networkLogs =
            Append(@, [ timestamp |-> now, speedMbps |-> speed_mbps,
                        quality |-> quality ])]
    ELSE sessions

\* Variant of end_session that upserts: an unknown id gets a document.
end_session_upsert(sessions, sid, now) ==
    IF sid \in DOMAIN sessions
    THEN [sessions EXCEPT ![sid].endedAt = << now >>]
    ELSE [ create_session(sessions, "default", sid, now) EXCEPT ![sid].endedAt = << now >> ]

\* database.py 393-399: update_one with $set of endedAt to the current time;
\* matches nothing for an unknown id.
end_session(sessions, sid, now) ==
    IF sid \in DOMAIN sessions
    THEN [sessions EXCEPT ![sid].endedAt = << now >>]
    ELSE sessions

\* database.py 402-405: find_one by sessionId, None when there is no document.
get_session(sessions, sid) ==
    IF sid \in DOMAIN sessions THEN << sessions[sid] >> ELSE None

TotalSamples(sessions) ==
    py_sum([ i \in 1..NumSessions |->
               IF i \in DOMAIN sessions THEN Len(sessions[i].networkLogs) ELSE 0 ])

\* A store client that is not inside log_latency.
Idle == [ pc |-> "idle", sid |-> 0, found |-> None ]

TotalLogs(sessions) ==
    py_sum([ i \in 1..NumSessions |->
               IF i \in DOMAIN sessions THEN Len(sessions[i].latencyLogs) ELSE 0 ])

(* ----------------------- websocket_interview -------------------------- *)
\* One action per segment of the handler that runs without suspending; pc
\* names the await the handler is suspended at.

NewLocals(sid, tok) ==
    [ pc |-> "start", session_id |-> sid, token |-> tok, access_token |-> None,
      close_code |-> 0, close_reason |-> "", lookups |-> 0, echoes |-> 0,
      fetches |-> 0, connects |-> 0, adds |-> 0, removes |-> 0 ]

\* The handler returns (or an exception leaves it): its locals are gone; what
\* stays observable is the close it sent and the calls it made.
Returned(c, code, reason) ==
    [ c EXCEPT !.pc = "done", !.access_token = None,
               !.close_code = code, !.close_reason = reason ]

\* Variant of resolve_config that asks for the "default" document first.
resolve_config_default_first(configs, tok) ==
    LET first == get_config_by_token(configs, "default")
    IN  IF Truthy(first.config)
        THEN [ config |-> first.config, configs |-> first.configs, calls |-> 1 ]
        ELSE LET second == get_config_by_token(first.configs, tok)
             IN  [ config |-> second.config, configs |-> second.configs, calls |-> 2 ]

\* lines 414-417: the configuration under the client's token and, when there
\* is none, under "default"; `calls` counts the lookups made.
resolve_config(configs, tok) ==
    LET first == get_config_by_token(configs, tok)
    IN  IF Truthy(first.config)
        THEN [ config |-> first.config, configs |-> first.configs, calls |-> 1 ]
        ELSE LET second == get_config_by_token(first.configs, "default")
             IN  [ config |-> second.config, configs |-> second.configs, calls |-> 2 ]

\* lines 399-405: capacity check, then suspend in close(1008) or in accept().
CheckCapacity(h) ==
    /\ conn[h].pc = "start"
    /\ conn' = [conn EXCEPT ![h].pc =
                  IF can_accept_connection(manager) THEN "accept" ELSE "close_capacity"]
    /\ UNCHANGED <<managerVars, dbVars, tokenVars, storeVars, sessionVars>>

\* Variant of CloseAtCapacity that records the rejected attempt in the
\* manager's history.
CloseAtCapacity_recorded(h) ==
    /\ conn[h].pc = "close_capacity"
    /\ manager' = [manager EXCEPT !.connection_history =
                      deque_append(@, [ timestamp |-> clock, action |-> "rejected",
                                        active |-> manager.active_connections ],
                                   HISTORY_MAXLEN)]
    /\ conn' = [conn EXCEPT ![h] = Returned(@, 1008, "Server at capacity")]
    /\ UNCHANGED <<clock, provider_calls, dbVars, tokenVars, storeVars, sessionVars>>

\* lines 401-403: close(1008) returns, the handler returns.
CloseAtCapacity(h) ==
    /\ conn[h].pc = "close_capacity"
    /\ conn' = [conn EXCEPT ![h] = Returned(@, 1008, "Server at capacity")]
    /\ UNCHANGED <<managerVars, dbVars, tokenVars, storeVars, sessionVars>>

\* lines 405-498: accept() returns; add_connection; the configuration is
\* looked up under the client's token and then under "default"; the handler
\* suspends in send_json, or in close(1011) when there is no configuration.
\* A lookup that raises (dbUp = FALSE) propagates out of the handler.
Admit(h) ==
    /\ conn[h].pc = "accept"
    /\ \E dbUp \in BOOLEAN :
         LET m1    == add_connection(manager, clock)
             found == resolve_config(interview_configs, conn[h].token)
         IN  IF ~dbUp
             THEN /\ manager' = m1
                  /\ interview_configs' = interview_configs
                  /\ conn' = [conn EXCEPT ![h] =
                                Returned([@ EXCEPT !.adds = @ + 1], 0, "")]
             ELSE IF ~Truthy(found.config)
             THEN /\ manager' = remove_connection(m1, clock)
                  /\ interview_configs' = found.configs
                  /\ conn' = [conn EXCEPT ![h].pc = "close_noconfig",
                                          ![h].lookups = found.calls,
                                          ![h].adds = @ + 1, ![h].removes = @ + 1]
             ELSE /\ manager' = m1
                  /\ interview_configs' = found.configs
                  /\ conn' = [conn EXCEPT ![h].pc = "send_config",
                                          ![h].lookups = found.calls,
                                          ![h].adds = @ + 1]
    /\ UNCHANGED <<clock, provider_calls, interview_sessions, tokenVars, storeVars,
                   sessionVars>>

\* lines 422-423: close(1011, "Configuration not found") returns.
CloseNoConfig(h) ==
    /\ conn[h].pc = "close_noconfig"
    /\ conn' = [conn EXCEPT ![h] = Returned(@, 1011, "Configuration not found")]
    /\ UNCHANGED <<managerVars, dbVars, tokenVars, storeVars, sessionVars>>

\* line 498 raising: the client is gone, send_json raises and the exception
\* leaves the handler (the call is outside every try).
SendConfigFails(h) ==
    /\ conn[h].pc = "send_config"
    /\ conn' = [conn EXCEPT ![h] = Returned(@, 0, "")]
    /\ UNCHANGED <<managerVars, dbVars, tokenVars, storeVars, sessionVars>>

\* Variant of SendConfigReturns without the try/except around create_session:
\* its failure leaves the handler.
SendConfigReturns_create_raises(h) ==
    /\ conn[h].pc = "send_config"
    /\ \E created \in BOOLEAN, ok \in BOOLEAN :
         LET fetched == get_access_token(ok, provider_calls + 1, clock)
             r       == get_cached_token(manager, clock, fetched)
         IN  IF ~created
             THEN /\ conn' = [conn EXCEPT ![h] =
                                Returned([@ EXCEPT !.echoes = @ + 1], 0, "")]
                  /\ UNCHANGED <<manager, provider_calls, interview_sessions>>
             ELSE
             /\ r.fetch => provider_calls < MaxFetches
             /\ interview_sessions' =
                    create_session(interview_sessions, conn[h].token,
                                   conn[h].session_id, clock)
             /\ provider_calls' = IF r.fetch THEN provider_calls + 1 ELSE provider_calls
             /\ IF ~Truthy(r.ret)
                THEN /\ manager' = remove_connection(r.manager, clock)
                     /\ conn' = [conn EXCEPT ![h].pc = "close_auth",
                                             ![h].access_token = r.ret,
                                             ![h].echoes = @ + 1,
                                             ![h].fetches = IF r.fetch THEN @ + 1 ELSE @,
                                             ![h].removes = @ + 1]
                ELSE /\ manager' = r.manager
                     /\ conn' = [conn EXCEPT ![h].pc = "connect",
                                             ![h].access_token = r.ret,
                                             ![h].echoes = @ + 1,
                                             ![h].fetches = IF r.fetch THEN @ + 1 ELSE @,
                                             ![h].connects = @ + 1]
    /\ UNCHANGED <<clock, interview_configs, tokenVars, storeVars, sessionVars>>

\* lines 498-516: send_json returns; create_session inside try/except (a failure
\* is logged and ignored); get_cached_token; without a token remove_connection
\* and suspend in close(1011), otherwise suspend in connect().
SendConfigReturns(h) ==
    /\ conn[h].pc = "send_config"
    /\ \E created \in BOOLEAN, ok \in BOOLEAN :
         LET fetched == get_access_token(ok, provider_calls + 1, clock)
             r       == get_cached_token(manager, clock, fetched)
         IN  /\ r.fetch => provider_calls < MaxFetches
             /\ interview_sessions' =
                    IF created
                    THEN create_session(interview_sessions, conn[h].token,
                                        conn[h].session_id, clock)
                    ELSE interview_sessions
             /\ provider_calls' = IF r.fetch THEN provider_calls + 1 ELSE provider_calls
             /\ IF ~Truthy(r.ret)
                THEN /\ manager' = remove_connection(r.manager, clock)
                     /\ conn' = [conn EXCEPT ![h].pc = "close_auth",
                                             ![h].access_token = r.ret,
                                             ![h].echoes = @ + 1,
                                             ![h].fetches = IF r.fetch THEN @ + 1 ELSE @,
                                             ![h].removes = @ + 1]
                ELSE /\ manager' = r.manager
                     /\ conn' = [conn EXCEPT ![h].pc = "connect",
                                             ![h].access_token = r.ret,
                                             ![h].echoes = @ + 1,
                                             ![h].fetches = IF r.fetch THEN @ + 1 ELSE @,
                                             ![h].connects = @ + 1]
    /\ UNCHANGED <<clock, interview_configs, tokenVars, storeVars, sessionVars>>

\* Variant of CloseAuth in which the credential check sits inside the try
\* block, so that the finally clause releases the slot a second time.
CloseAuth_in_try(h) ==
    /\ conn[h].pc = "close_auth"
    /\ manager' = remove_connection(manager, clock)
    /\ conn' = [conn EXCEPT ![h] = Returned([@ EXCEPT !.removes = @ + 1], 1011,
                                            "Authentication failed")]
    /\ UNCHANGED <<clock, provider_calls, dbVars, tokenVars, storeVars, sessionVars>>

\* Variant of CloseAuth that goes on to the upstream connection without a
\* credential.
CloseAuth_connects_anyway(h) ==
    /\ conn[h].pc = "close_auth"
    /\ conn' = [conn EXCEPT ![h].pc = "connect", ![h].connects = @ + 1]
    /\ UNCHANGED <<managerVars, dbVars, tokenVars, storeVars, sessionVars>>

\* lines 512-513: close(1011, "Authentication failed") returns.
CloseAuth(h) ==
    /\ conn[h].pc = "close_auth"
    /\ conn' = [conn EXCEPT ![h] = Returned(@, 1011, "Authentication failed")]
    /\ UNCHANGED <<managerVars, dbVars, tokenVars, storeVars, sessionVars>>

\* Variant of ConnectReturns that sends the config message once more when the
\* upstream connection is open.
ConnectReturns_sends_config(h) ==
    /\ conn[h].pc = "connect"
    /\ conn' = [conn EXCEPT ![h].pc = "handshake", ![h].echoes = @ + 1]
    /\ UNCHANGED <<managerVars, dbVars, tokenVars, storeVars, sessionVars>>

\* lines 516-553: connect() returns an open upstream connection; the handler
\* suspends in ws_google.send(setup).
ConnectReturns(h) ==
    /\ conn[h].pc = "connect"
    /\ conn' = [conn EXCEPT ![h].pc = "handshake"]
    /\ UNCHANGED <<managerVars, dbVars, tokenVars, storeVars, sessionVars>>

\* Variant of ConnectFails that calls connect() once more after a failure.
ConnectFails_retries(h) ==
    /\ conn[h].pc = "connect"
    /\ conn' = [conn EXCEPT ![h].pc = IF conn[h].connects < 2 THEN "connect"
                                      ELSE "close_error",
                            ![h].connects = IF conn[h].connects < 2 THEN @ + 1 ELSE @]
    /\ UNCHANGED <<managerVars, dbVars, tokenVars, storeVars, sessionVars>>

\* lines 516, 561-564: connect() raises; except Exception suspends in
\* websocket.close(1011).
ConnectFails(h) ==
    /\ conn[h].pc = "connect"
    /\ conn' = [conn EXCEPT ![h].pc = "close_error"]
    /\ UNCHANGED <<managerVars, dbVars, tokenVars, storeVars, sessionVars>>

\* lines 553-557: the setup message is sent; the handler suspends in
\* relay_messages.
HandshakeReturns(h) ==
    /\ conn[h].pc = "handshake"
    /\ conn' = [conn EXCEPT ![h].pc = "relay"]
    /\ UNCHANGED <<managerVars, dbVars, tokenVars, storeVars, sessionVars>>

\* line 553 raising: the exception leaves the async-with block, whose exit
\* closes the upstream connection before except Exception runs.
HandshakeFails(h) ==
    /\ conn[h].pc = "handshake"
    /\ conn' = [conn EXCEPT ![h].pc = "exit_upstream_error"]
    /\ UNCHANGED <<managerVars, dbVars, tokenVars, storeVars, sessionVars>>

\* lines 296-310, 338: inside relay_messages the upstream offers a resumption
\* handle and announces with goAway that it will close; server2client stores
\* the handle in its local, logs a warning and forwards both frames. The
\* handler stays suspended in relay_messages.
ResumptionOffered(h) ==
    /\ conn[h].pc = "relay"
    /\ conn' = [conn EXCEPT ![h].pc = "relay_goaway"]
    /\ UNCHANGED <<managerVars, dbVars, tokenVars, storeVars, sessionVars>>

\* lines 340-351, 557: relay_messages returns (both pumps ended, or the
\* timeout fired; it swallows every exception); the async-with exit closes
\* the upstream connection.
RelayReturns(h) ==
    /\ conn[h].pc \in {"relay", "relay_goaway"}
    /\ conn' = [conn EXCEPT ![h].pc = "exit_upstream"]
    /\ UNCHANGED <<managerVars, dbVars, tokenVars, storeVars, sessionVars>>

\* lines 522, 561-564: the upstream close after a failed handshake returns;
\* except Exception suspends in websocket.close(1011).
UpstreamClosedAfterError(h) ==
    /\ conn[h].pc = "exit_upstream_error"
    /\ conn' = [conn EXCEPT ![h].pc = "close_error"]
    /\ UNCHANGED <<managerVars, dbVars, tokenVars, storeVars, sessionVars>>

\* lines 522, 567-569: the upstream close after the relay returns; finally
\* releases the slot.
UpstreamClosed(h) ==
    /\ conn[h].pc = "exit_upstream"
    /\ manager' = remove_connection(manager, clock)
    /\ conn' = [conn EXCEPT ![h] = Returned([@ EXCEPT !.removes = @ + 1], 0, "")]
    /\ UNCHANGED <<clock, provider_calls, dbVars, tokenVars, storeVars, sessionVars>>

\* lines 563-569: websocket.close(1011) returns or raises (ignored); finally
\* releases the slot.
CloseAfterError(h) ==
    /\ conn[h].pc = "close_error"
    /\ manager' = remove_connection(manager, clock)
    /\ conn' = [conn EXCEPT ![h] = Returned([@ EXCEPT !.removes = @ + 1], 1011,
                                            "str(e)")]
    /\ UNCHANGED <<clock, provider_calls, dbVars, tokenVars, storeVars, sessionVars>>

(* ----------------------- instruction building ------------------------ *)
\* A configuration document is a function from the keys it carries to their
\* values; a text is the sequence of its pieces (literal fragments of the
\* template and interpolated values), so that two texts are equal exactly when
\* they are built from the same pieces in the same order.

\* dict.get(key): the value as an optional, None for a missing key.
dict_get_opt(d, key) == IF key \in DOMAIN d THEN << d[key] >> ELSE None

\* Truth value of an optional string: None and "" are false.
TruthyStr(x) == x # None /\ x[1] # ""

\* str(n) inside an f-string.
py_str(n) == ToString(n)

\* Variant of lang_instruction that matches the language name without regard
\* to case.
lang_instruction_caseless(language) ==
    IF language \in {"casual-hindi", "Casual-Hindi", "CASUAL-HINDI"}
    THEN "CRITICAL MANDATORY LANGUAGE RULE: SPEAK ONLY IN CASUAL HINDI (Hinglish)"
    ELSE "LANGUAGE: INDIAN ENGLISH"

\* lines 590-610: the language block that opens the prompt, named by its
\* heading.
lang_instruction(language) ==
    IF language = "casual-hindi"
    THEN "CRITICAL MANDATORY LANGUAGE RULE: SPEAK ONLY IN CASUAL HINDI (Hinglish)"
    ELSE "LANGUAGE: INDIAN ENGLISH"

\* Variant of exp_instruction that treats every value outside the first four
\* buckets as the most senior one.
exp_instruction_open_ended(experience) ==
    CASE experience = "0-1"  ->
           "Ask beginner-friendly questions. Focus on fundamentals, basic concepts, and willingness to learn."
      [] experience = "1-3"  ->
           "Ask intermediate questions. Focus on practical experience, problem-solving, and coding skills."
      [] experience = "3-5"  ->
           "Ask mid-level questions. Include system design basics, architecture decisions, and leadership potential."
      [] experience = "5-10" ->
           "Ask senior-level questions. Focus on system design, architecture, mentoring, and strategic thinking."
      [] OTHER               ->
           "Ask principal/lead-level questions. Focus on large-scale system design, organizational impact, and technical vision."

\* lines 613-623.
exp_instruction(experience) ==
    CASE experience = "0-1"  ->
           "Ask beginner-friendly questions. Focus on fundamentals, basic concepts, and willingness to learn."
      [] experience = "1-3"  ->
           "Ask intermediate questions. Focus on practical experience, problem-solving, and coding skills."
      [] experience = "3-5"  ->
           "Ask mid-level questions. Include system design basics, architecture decisions, and leadership potential."
      [] experience = "5-10" ->
           "Ask senior-level questions. Focus on system design, architecture, mentoring, and strategic thinking."
      [] experience = "10+"  ->
           "Ask principal/lead-level questions. Focus on large-scale system design, organizational impact, and technical vision."
      [] OTHER               -> ""

\* Variant of proctoring_rules in which the phone rule is part of the
\* multiple-people check.
proctoring_rules_nested(proctoring) ==
    IF dict_get(proctoring, "enabled", TRUE)
    THEN (IF dict_get(proctoring, "detectMultiplePeople", TRUE)
          THEN << "1. Multiple People Detected" >>
               \o (IF dict_get(proctoring, "detectPhone", TRUE)
                   THEN << "2. Mobile Phone Usage" >> ELSE << >>)
          ELSE << >>)
         \o (IF dict_get(proctoring, "detectLookingAway", TRUE)
             THEN << "3. Looking Away" >> ELSE << >>)
         \o (IF dict_get(proctoring, "detectTabSwitch", TRUE)
             THEN << "4. Tab Switching" >> ELSE << >>)
    ELSE << >>

\* lines 626-637: the rules joined into proctoring_rules, each named by its
\* title; the empty sequence is the empty string.
proctoring_rules(proctoring) ==
    IF dict_get(proctoring, "enabled", TRUE)
    THEN (IF dict_get(proctoring, "detectMultiplePeople", TRUE)
          THEN << "1. Multiple People Detected" >> ELSE << >>)
         \o (IF dict_get(proctoring, "detectPhone", TRUE)
             THEN << "2. Mobile Phone Usage" >> ELSE << >>)
         \o (IF dict_get(proctoring, "detectLookingAway", TRUE)
             THEN << "3. Looking Away" >> ELSE << >>)
         \o (IF dict_get(proctoring, "detectTabSwitch", TRUE)
             THEN << "4. Tab Switching" >> ELSE << >>)
    ELSE << >>

\* Variant of generate_dynamic_prompt that stamps the text with the time and
\* the connection number.
generate_dynamic_prompt_stamped(config, ai_settings, proctoring) ==
    << "Interview", py_str(clock), py_str(manager.total_connections),
       dict_get(config, "language", "indian-english") >>

\* lines 572-681.
generate_dynamic_prompt(config, ai_settings, proctoring) ==
    LET company_name     == dict_get(config, "companyName", "the company")
        job_role         == dict_get(config, "jobRole", "Software Engineer")
        candidate_name   == dict_get(config, "candidateName", "")
        language         == dict_get(config, "language", "indian-english")
        country          == dict_get(config, "country", "India")
        industry         == dict_get(config, "industryType", "Information Technology")
        experience       == dict_get(config, "yearsOfExperience", "1-3")
        duration_minutes == dict_get(config, "durationMinutes", 30)
        silence_warning2 == dict_get(ai_settings, "silenceWarning2Seconds", 50)
        max_questions    == dict_get(ai_settings, "maxQuestions", 10)
        rules            == proctoring_rules(proctoring)
    IN  << lang_instruction(language),
           "You are conducting a real-time technical interview for", company_name,
           "for the position of", job_role,
           "Industry:", industry, "Country:", country,
           "Expected Experience:", experience, "years" >>
        \o (IF candidate_name # ""
            THEN << "The candidate's name is", candidate_name >> ELSE << >>)
        \o << "EXPERIENCE-BASED DIFFICULTY:", exp_instruction(experience),
              "PROCTORING & MONITORING:" >>
        \o (IF rules # << >> THEN rules
            ELSE << "Proctoring is disabled for this interview." >>)
        \o << "SILENT USER DETECTION:",
              "Candidate silent for", py_str(silence_warning2), "seconds - FINAL WARNING",
              "Interview time limit", py_str(duration_minutes), "minutes reached",
              "We have reached the", py_str(duration_minutes), "-minute time limit.",
              "Interview Structure:", "Ask up to", py_str(max_questions), "questions",
              "Communication Rules:" >>

\* Variant of select_system_prompt that always builds the instruction.
select_system_prompt_always(config) ==
    [ text      |-> generate_dynamic_prompt(config, dict_get(config, "aiSettings", EmptyDict),
                                            dict_get(config, "proctoring", EmptyDict)),
      generated |-> TRUE ]

\* lines 427-428, 452-461: the configured systemPrompt when it is truthy,
\* otherwise the generated instruction; `generated` tells whether
\* generate_dynamic_prompt was invoked.
select_system_prompt(config) ==
    LET ai_settings   == dict_get(config, "aiSettings", EmptyDict)
        proctoring    == dict_get(config, "proctoring", EmptyDict)
        custom_prompt == dict_get_opt(config, "systemPrompt")
    IN  IF TruthyStr(custom_prompt)
        THEN [ text |-> << custom_prompt[1] >>, generated |-> FALSE ]
        ELSE [ text |-> generate_dynamic_prompt(config, ai_settings, proctoring),
               generated |-> TRUE ]

\* lines 524-551: the setup message, reduced to the fields that depend on the
\* configuration.
initial_request(system_prompt, voice_name, temperature) ==
    [ temperature        |-> temperature,
      voiceName          |-> voice_name,
      systemInstruction  |-> system_prompt,
      session_resumption |-> TRUE ]

\* Configuration documents of the model: a base document, documents that
\* differ from it in one field, and each of those with a systemPrompt.
\* Variant of config_message that passes the sampling temperature on with the
\* timing values.
config_message_with_tuning(config, session_id, candidate_uuid) ==
    LET ai_settings == dict_get(config, "aiSettings", EmptyDict)
    IN  [ type   |-> "config",
          config |->
            [ timing |->
                [ durationMinutes        |-> dict_get(config, "durationMinutes", 30),
                  silenceWarning1Seconds |-> dict_get(ai_settings, "silenceWarning1Seconds", 35),
                  silenceWarning2Seconds |-> dict_get(ai_settings, "silenceWarning2Seconds", 50),
                  silenceEndSeconds      |-> dict_get(ai_settings, "silenceEndSeconds", 60),
                  autoEndDelaySeconds    |-> dict_get(ai_settings, "autoEndDelaySeconds", 8),
                  temperature            |-> dict_get(ai_settings, "temperature", "0.7") ],
              turnDetection |->
                [ userSpeechEndDelayMs    |-> dict_get(ai_settings, "userSpeechEndDelayMs", 500),
                  aiResponseDelayMs       |-> dict_get(ai_settings, "aiResponseDelayMs", 200),
                  interruptionThresholdMs |-> dict_get(ai_settings, "interruptionThresholdMs", 300) ],
              ui        |-> dict_get(config, "ui", EmptyDict),
              recording |-> dict_get(config, "recording", EmptyDict),
              interview |->
                [ companyName   |-> dict_get_opt(config, "companyName"),
                  jobRole       |-> dict_get_opt(config, "jobRole"),
                  candidateName |-> dict_get_opt(config, "candidateName"),
                  language      |-> dict_get(config, "language", "indian-english") ],
              sessionId     |-> session_id,
              candidateUuid |-> candidate_uuid ] ]

\* lines 428, 441-450, 464-497: the message that tells the frontend its
\* settings.
config_message(config, session_id, candidate_uuid) ==
    LET ai_settings == dict_get(config, "aiSettings", EmptyDict)
    IN  [ type   |-> "config",
          config |->
            [ timing |->
                [ durationMinutes        |-> dict_get(config, "durationMinutes", 30),
                  silenceWarning1Seconds |-> dict_get(ai_settings, "silenceWarning1Seconds", 35),
                  silenceWarning2Seconds |-> dict_get(ai_settings, "silenceWarning2Seconds", 50),
                  silenceEndSeconds      |-> dict_get(ai_settings, "silenceEndSeconds", 60),
                  autoEndDelaySeconds    |-> dict_get(ai_settings, "autoEndDelaySeconds", 8) ],
              turnDetection |->
                [ userSpeechEndDelayMs    |-> dict_get(ai_settings, "userSpeechEndDelayMs", 500),
                  aiResponseDelayMs       |-> dict_get(ai_settings, "aiResponseDelayMs", 200),
                  interruptionThresholdMs |-> dict_get(ai_settings, "interruptionThresholdMs", 300) ],
              ui        |-> dict_get(config, "ui", EmptyDict),
              recording |-> dict_get(config, "recording", EmptyDict),
              interview |->
                [ companyName   |-> dict_get_opt(config, "companyName"),
                  jobRole       |-> dict_get_opt(config, "jobRole"),
                  candidateName |-> dict_get_opt(config, "candidateName"),
                  language      |-> dict_get(config, "language", "indian-english") ],
              sessionId     |-> session_id,
              candidateUuid |-> candidate_uuid ] ]

\* models.py:14-31: AI settings with the tuning values set.
TunedSettings ==
    [ voiceSpeed |-> "1.2", voicePitch |-> "2", temperature |-> "0.9", maxQuestions |-> 7,
      silenceWarning1Seconds |-> 30, userSpeechEndDelayMs |-> 700 ]

BaseConfig == [ token |-> "acme", companyName |-> "Acme", jobRole |-> "Backend Engineer" ]

ProctoringDocs ==
    { EmptyDict,
      [ enabled |-> FALSE ],
      [ enabled |-> TRUE, detectPhone |-> FALSE ],
      [ detectMultiplePeople |-> FALSE, detectTabSwitch |-> FALSE ],
      [ enabled |-> TRUE, detectMultiplePeople |-> FALSE, detectPhone |-> FALSE,
        detectLookingAway |-> FALSE, detectTabSwitch |-> FALSE ] }

PlainConfigs ==
    { BaseConfig }
    \cup { ("language" :> l) @@ BaseConfig : l \in {"casual-hindi", "indian-english", "tamil"} }
    \cup { ("yearsOfExperience" :> e) @@ BaseConfig :
              e \in {"0-1", "1-3", "3-5", "5-10", "10+", "15"} }
    \cup { ("proctoring" :> p) @@ BaseConfig : p \in ProctoringDocs }
    \cup { ("candidateName" :> n) @@ BaseConfig : n \in {"", "Asha"} }
    \cup { ("aiSettings" :> a) @@ BaseConfig :
              a \in { [ maxQuestions |-> 5 ], [ silenceWarning2Seconds |-> 40 ] } }
    \cup { ("durationMinutes" :> 45) @@ ("voiceName" :> "Puck") @@ BaseConfig }
    \cup { ("aiSettings" :> TunedSettings)
           @@ ("ui" :> [ appTitle |-> "AI Voice Interview", showTimer |-> TRUE ])
           @@ ("recording" :> [ audioEnabled |-> TRUE, uploadToServer |-> TRUE ])
           @@ BaseConfig }

OverrideTexts == { "", "X" }

Configs ==
    PlainConfigs \cup { ("systemPrompt" :> s) @@ c : s \in OverrideTexts, c \in PlainConfigs }

\* A dict with the key missing, or carrying one of the values.
OptionalKey(key, values) == { EmptyDict } \cup { (key :> v) : v \in values }

\* models.py:34-41: proctoring documents, every flag missing, true or false.
AllProctoringDocs ==
    { en @@ mp @@ ph @@ la @@ ts :
        en \in OptionalKey("enabled", BOOLEAN),
        mp \in OptionalKey("detectMultiplePeople", BOOLEAN),
        ph \in OptionalKey("detectPhone", BOOLEAN),
        la \in OptionalKey("detectLookingAway", BOOLEAN),
        ts \in OptionalKey("detectTabSwitch", BOOLEAN) }

Languages == { "casual-hindi", "indian-english", "tamil", "Casual-Hindi" }

Experiences == { "0-1", "1-3", "3-5", "5-10", "10+", "15", "10" }

\* Configurations without an override text: every language, experience
\* and proctoring document, each of them possibly missing.
BuildConfigs ==
    { l @@ e @@ pr @@ BaseConfig :
        l  \in OptionalKey("language", Languages),
        e  \in OptionalKey("yearsOfExperience", Experiences),
        pr \in OptionalKey("proctoring", AllProctoringDocs) }

\* prompt has the fields
\*   pc            "loaded", "selected" or "sent": where the connection stands
\*   config        the configuration document found for the connection
\*   system_prompt the local of lines 455/457, << >> before it is assigned
\*   generated     whether generate_dynamic_prompt was invoked for this connection
\*   echo          the config message sent to the client, None before
\*   setup         the setup message sent upstream, None before
\*   first_build   the first connection served: its system_prompt, the time and
\*                 the connection counter when it was built; None before
NoPrompt ==
    [ pc |-> "none", config |-> EmptyDict, system_prompt |-> << >>, generated |-> FALSE,
      echo |-> None, setup |-> None, first_build |-> None ]

\* lines 427-498 for the connection's configuration: the system prompt is
\* selected, the config message is built and sent to the client (the two
\* uuid4 values are drawn as 1 and 2).
SelectPrompt ==
    /\ prompt.pc = "loaded"
    /\ LET r == select_system_prompt(prompt.config)
       IN  prompt' = [ prompt EXCEPT
                         !.pc = "selected",
                         !.system_prompt = r.text,
                         !.generated = r.generated,
                         !.echo = << config_message(prompt.config, 1, 2) >>,
                         !.first_build =
                             IF @ = None
                             THEN << [ text |-> r.text, at |-> clock,
                                       total |-> manager.total_connections ] >>
                             ELSE @ ]
    /\ UNCHANGED <<managerVars, dbVars, conn, tokenVars, storeVars, relay>>

\* lines 431, 437, 524-553: the setup message is built and sent upstream.
SendSetup ==
    /\ prompt.pc = "selected"
    /\ LET ai_settings == dict_get(prompt.config, "aiSettings", EmptyDict)
       IN  prompt' = [ prompt EXCEPT
                         !.pc = "sent",
                         !.setup = << initial_request(
                                        prompt.system_prompt,
                                        dict_get(prompt.config, "voiceName", "Aoede"),
                                        dict_get(ai_settings, "temperature", "0.7")) >> ]
    /\ UNCHANGED <<managerVars, dbVars, conn, tokenVars, storeVars, relay>>

\* The next connection presenting the same token finds the same document.
NextConnection ==
    /\ prompt.pc = "sent"
    /\ prompt' = [ prompt EXCEPT !.pc = "loaded", !.system_prompt = << >>,
                                 !.generated = FALSE, !.echo = None, !.setup = None ]
    /\ UNCHANGED <<managerVars, dbVars, conn, tokenVars, storeVars, relay>>

\* Meanwhile other connections are admitted.
OtherConnects ==
    /\ can_accept_connection(manager)
    /\ manager.total_connections < NumHandlers
    /\ manager' = add_connection(manager, clock)
    /\ UNCHANGED <<clock, provider_calls, dbVars, conn, tokenVars, storeVars, sessionVars>>

(* ------------------------------ relay --------------------------------- *)

\* One connection from the point where its handler waits for connect()
\* (line 516) to the release of its slot; inside relay_messages one action per
\* segment of a pump between two awaits.  The clock counts seconds here.

\* A frame on either socket, raw: what json.loads makes of its text (an object
\* with members, another JSON value such as a number, or no JSON at all).
Frame(syntax, members) == [ syntax |-> syntax, members |-> members ]

\* Frames the browser sends: a media chunk, another well-formed message, a
\* JSON number, and text that is not JSON.
ClientFrames ==
    { Frame("object", [ realtimeInput |-> "chunk" ]),
      Frame("object", [ clientContent |-> "turn" ]),
      Frame("number", EmptyDict),
      Frame("invalid", EmptyDict) }

\* Frames the upstream service sends.
UpstreamFrames ==
    { Frame("object", [ setupComplete |-> EmptyDict ]),
      Frame("object", [ serverContent |-> "modelTurn" ]),
      Frame("object", [ goAway |-> [ timeLeft |-> "5s" ] ]),
      Frame("object", [ sessionResumptionUpdate |->
                            [ resumable |-> TRUE, newHandle |-> "h1" ] ]),
      Frame("object", [ sessionResumptionUpdate |->
                            [ resumable |-> TRUE, newHandle |-> "h2" ] ]),
      Frame("object", [ sessionResumptionUpdate |->
                            [ resumable |-> FALSE, newHandle |-> "h2" ] ]),
      Frame("object", [ sessionResumptionUpdate |->
                            [ resumable |-> TRUE, newHandle |-> "" ] ]),
      Frame("object", [ sessionResumptionUpdate |-> [ resumable |-> TRUE ] ]),
      Frame("invalid", EmptyDict) }

\* lines 524-553: the setup message, json.dumps(initial_request); its content
\* is built in SelectPrompt and SendSetup.
SetupFrame == Frame("object", [ setup |-> "initial_request" ])

\* json.loads: None stands for the JSONDecodeError it raises.
json_loads(frame) ==
    IF frame.syntax = "invalid" THEN None
    ELSE << [ type |-> frame.syntax, members |-> frame.members ] >>

\* `key in data`: None stands for the TypeError raised when data is not a
\* container.
py_in(key, data) ==
    IF data.type = "object" THEN << key \in DOMAIN data.members >> ELSE None

\* lines 276-284 of client2server: TRUE when the segment reaches the send of
\* line 286, FALSE when it raises before.
client2server_inspect(message) ==
    LET data == json_loads(message)
    IN  IF data = None THEN FALSE
        ELSE py_in("realtimeInput", data[1]) # None

\* Variant of server2client_inspect that takes the handle from every
\* resumption update that carries one.
server2client_inspect_any(message, session_handle) ==
    LET data == json_loads(message)
    IN  IF data = None \/ py_in("sessionResumptionUpdate", data[1]) = None
        THEN [ ok |-> FALSE, session_handle |-> session_handle ]
        ELSE IF "sessionResumptionUpdate" \in DOMAIN data[1].members
             THEN LET update == data[1].members["sessionResumptionUpdate"]
                  IN  [ ok |-> TRUE,
                        session_handle |->
                            IF dict_get(update, "newHandle", "") # ""
                            THEN << update["newHandle"] >> ELSE session_handle ]
             ELSE [ ok |-> TRUE, session_handle |-> session_handle ]

\* Variant of server2client_inspect that forgets the handle on goAway.
server2client_inspect_clear(message, session_handle) ==
    LET data == json_loads(message)
    IN  IF data = None \/ py_in("sessionResumptionUpdate", data[1]) = None
        THEN [ ok |-> FALSE, session_handle |-> session_handle ]
        ELSE IF "goAway" \in DOMAIN data[1].members
             THEN [ ok |-> TRUE, session_handle |-> None ]
             ELSE IF "sessionResumptionUpdate" \in DOMAIN data[1].members
             THEN LET update == data[1].members["sessionResumptionUpdate"]
                  IN  [ ok |-> TRUE,
                        session_handle |->
                            IF dict_get(update, "resumable", FALSE)
                               /\ dict_get(update, "newHandle", "") # ""
                            THEN << update["newHandle"] >> ELSE session_handle ]
             ELSE [ ok |-> TRUE, session_handle |-> session_handle ]

\* lines 299-334 of server2client: whether the segment reaches the send of
\* line 336 (ok), and session_handle afterwards.
server2client_inspect(message, session_handle) ==
    LET data == json_loads(message)
    IN  IF data = None \/ py_in("sessionResumptionUpdate", data[1]) = None
        THEN [ ok |-> FALSE, session_handle |-> session_handle ]
        ELSE IF "sessionResumptionUpdate" \in DOMAIN data[1].members
             THEN LET update == data[1].members["sessionResumptionUpdate"]
                  IN  [ ok |-> TRUE,
                        session_handle |->
                            IF dict_get(update, "resumable", FALSE)
                               /\ dict_get(update, "newHandle", "") # ""
                            THEN << update["newHandle"] >> ELSE session_handle ]
             ELSE [ ok |-> TRUE, session_handle |-> session_handle ]

\* A pump: the await it is suspended at ("idle" before it is started,
\* "receiving", "sending", "ended"), the frame it is sending, and why it ended
\* ("raised" before the send, "send_failed", "source_closed", "cancelled").
PumpIdle      == [ pc |-> "idle", pending |-> None, ended_by |-> "" ]
PumpReceiving == [ pc |-> "receiving", pending |-> None, ended_by |-> "" ]
PumpSending(message) == [ pc |-> "sending", pending |-> << message >>, ended_by |-> "" ]
PumpEnded(why) == [ pc |-> "ended", pending |-> None, ended_by |-> why ]

\* What cancellation does to a pump: nothing when it has ended already.
PumpCancelled(pump) == IF pump.pc = "ended" THEN pump ELSE PumpEnded("cancelled")

\* relay has the fields
\*   pc              the await the handler is suspended at
\*   upstream        "none", "open" or "closed": the connection of line 516
\*   connects        connect() calls made for this connection
\*   started_at      the clock when wait_for was entered (line 342)
\*   session_handle  the nonlocal of line 266
\*   c2s, s2c        the pumps client2server and server2client
\*   c2s_received, c2s_forwarded   frames read from the browser / sent upstream
\*   upstream_sent   every message sent on the upstream connection, in order
\*   s2c_received, s2c_forwarded   frames read from upstream / sent to the browser
\*   removes         remove_connection calls made for this connection
\*   close_code      code of the websocket.close the handler issued, 0 if none
NoRelay ==
    [ pc |-> "none", upstream |-> "none", connects |-> 0, started_at |-> 0,
      session_handle |-> None, c2s |-> PumpIdle, s2c |-> PumpIdle,
      c2s_received |-> << >>, c2s_forwarded |-> << >>, upstream_sent |-> << >>,
      s2c_received |-> << >>, s2c_forwarded |-> << >>,
      removes |-> 0, close_code |-> 0 ]

RelayFrame == <<provider_calls, dbVars, conn, tokenVars, storeVars, prompt>>

\* The deadline of wait_for (line 348).
Deadline == relay.started_at + CONNECTION_TIMEOUT

\* Frames read so far, both directions.
FramesRead == Len(relay.c2s_received) + Len(relay.s2c_received)

\* lines 516-553: connect() returns the open upstream connection; the handler
\* suspends in ws_google.send(setup).
OpenUpstream ==
    /\ relay.pc = "connect"
    /\ relay' = [relay EXCEPT !.pc = "handshake", !.upstream = "open",
                              !.connects = @ + 1]
    /\ UNCHANGED <<manager, clock, RelayFrame>>

\* lines 516, 561-564: connect() raises; suspend in websocket.close(1011).
OpenUpstreamFails ==
    /\ relay.pc = "connect"
    /\ relay' = [relay EXCEPT !.pc = "close_error", !.connects = @ + 1]
    /\ UNCHANGED <<manager, clock, RelayFrame>>

\* Variant of StartRelay that enters relay_messages without having sent the
\* setup message.
StartRelay_without_setup ==
    /\ relay.pc = "handshake"
    /\ relay' = [relay EXCEPT !.pc = "relay", !.started_at = clock,
                              !.session_handle = None,
                              !.c2s = PumpReceiving, !.s2c = PumpReceiving]
    /\ UNCHANGED <<manager, clock, RelayFrame>>

\* lines 553-557, 262-349: the setup message is sent; relay_messages creates
\* both pumps under wait_for and each suspends in its first receive.
StartRelay ==
    /\ relay.pc = "handshake"
    /\ relay' = [relay EXCEPT !.pc = "relay", !.started_at = clock,
                              !.upstream_sent = Append(@, SetupFrame),
                              !.session_handle = None,
                              !.c2s = PumpReceiving, !.s2c = PumpReceiving]
    /\ UNCHANGED <<manager, clock, RelayFrame>>

\* line 553 raising: the async-with exit closes the upstream connection.
SetupSendFails ==
    /\ relay.pc = "handshake"
    /\ relay' = [relay EXCEPT !.pc = "exit_upstream_error"]
    /\ UNCHANGED <<manager, clock, RelayFrame>>

\* lines 274-286: receive_text returns a frame; it is parsed and inspected,
\* then the pump suspends in target.send, or ends when the inspection raised
\* (lines 289-290).
C2S_Receive(message) ==
    /\ relay.pc = "relay" /\ relay.c2s.pc = "receiving"
    /\ FramesRead < MaxFrames
    /\ relay' = [relay EXCEPT
                   !.c2s_received = Append(@, message),
                   !.c2s = IF client2server_inspect(message)
                           THEN PumpSending(message) ELSE PumpEnded("raised")]
    /\ UNCHANGED <<manager, clock, RelayFrame>>

\* lines 274, 287-288: the browser went away, receive_text raises
\* WebSocketDisconnect.
C2S_Disconnect ==
    /\ relay.pc = "relay" /\ relay.c2s.pc = "receiving"
    /\ relay' = [relay EXCEPT !.c2s = PumpEnded("source_closed")]
    /\ UNCHANGED <<manager, clock, RelayFrame>>

\* line 286 returning: the frame went upstream as it was received.
C2S_SendReturns ==
    /\ relay.pc = "relay" /\ relay.c2s.pc = "sending"
    /\ relay.s2c.ended_by # "source_closed"
    /\ relay' = [relay EXCEPT !.c2s_forwarded = Append(@, relay.c2s.pending[1]),
                              !.upstream_sent = Append(@, relay.c2s.pending[1]),
                              !.c2s = PumpReceiving]
    /\ UNCHANGED <<manager, clock, RelayFrame>>

\* line 286 raising (the upstream connection is closed), lines 289-290.
C2S_SendFails ==
    /\ relay.pc = "relay" /\ relay.c2s.pc = "sending"
    /\ relay' = [relay EXCEPT !.c2s = PumpEnded("send_failed")]
    /\ UNCHANGED <<manager, clock, RelayFrame>>

\* lines 297-336: the iteration yields a frame; it is parsed and inspected,
\* session_handle is updated, then the pump suspends in target.send_text, or
\* ends when the inspection raised (lines 337-338).
S2C_Receive(message) ==
    /\ relay.pc = "relay" /\ relay.s2c.pc = "receiving"
    /\ FramesRead < MaxFrames
    /\ LET r == server2client_inspect(message, relay.session_handle)
       IN  relay' = [relay EXCEPT
                       !.s2c_received = Append(@, message),
                       !.session_handle = r.session_handle,
                       !.s2c = IF r.ok THEN PumpSending(message)
                               ELSE PumpEnded("raised")]
    /\ UNCHANGED <<manager, clock, RelayFrame>>

\* line 297: the upstream connection was closed by the service; the iteration
\* stops or raises ConnectionClosed (lines 337-338).
S2C_UpstreamCloses ==
    /\ relay.pc = "relay" /\ relay.s2c.pc = "receiving"
    /\ relay' = [relay EXCEPT !.s2c = PumpEnded("source_closed")]
    /\ UNCHANGED <<manager, clock, RelayFrame>>

\* Variant of S2C_SendReturns that delivers the newest frame first.
S2C_SendReturns_newest_first ==
    /\ relay.pc = "relay" /\ relay.s2c.pc = "sending"
    /\ relay.c2s.ended_by # "source_closed"
    /\ relay' = [relay EXCEPT !.s2c_forwarded = << relay.s2c.pending[1] >> \o @,
                              !.s2c = PumpReceiving]
    /\ UNCHANGED <<manager, clock, RelayFrame>>

\* line 336 returning: the frame went to the browser as it was received.
S2C_SendReturns ==
    /\ relay.pc = "relay" /\ relay.s2c.pc = "sending"
    /\ relay.c2s.ended_by # "source_closed"
    /\ relay' = [relay EXCEPT !.s2c_forwarded = Append(@, relay.s2c.pending[1]),
                              !.s2c = PumpReceiving]
    /\ UNCHANGED <<manager, clock, RelayFrame>>

\* line 336 raising (the browser is gone), lines 337-338.
S2C_SendFails ==
    /\ relay.pc = "relay" /\ relay.s2c.pc = "sending"
    /\ relay' = [relay EXCEPT !.s2c = PumpEnded("send_failed")]
    /\ UNCHANGED <<manager, clock, RelayFrame>>

\* lines 342-349, 557: both pumps have returned, gather completes and
\* relay_messages returns; the async-with exit closes the upstream connection.
GatherReturns ==
    /\ relay.pc = "relay"
    /\ relay.c2s.pc = "ended" /\ relay.s2c.pc = "ended"
    /\ relay' = [relay EXCEPT !.pc = "exit_upstream"]
    /\ UNCHANGED <<manager, clock, RelayFrame>>

\* Variant of RelayTimeout that awaits gather without wait_for: the deadline
\* passes and the pumps are left running.
RelayTimeout_unbounded ==
    /\ relay.pc = "relay"
    /\ ~(relay.c2s.pc = "ended" /\ relay.s2c.pc = "ended")
    /\ clock >= Deadline
    /\ UNCHANGED <<manager, clock, relay, RelayFrame>>

\* lines 342-351: the deadline passes with a pump still running; wait_for
\* cancels gather, which cancels the pumps; relay_messages returns.
RelayTimeout ==
    /\ relay.pc = "relay"
    /\ ~(relay.c2s.pc = "ended" /\ relay.s2c.pc = "ended")
    /\ clock >= Deadline
    /\ relay' = [relay EXCEPT !.pc = "exit_upstream",
                              !.c2s = PumpCancelled(@), !.s2c = PumpCancelled(@)]
    /\ UNCHANGED <<manager, clock, RelayFrame>>

\* The handler's task is cancelled while it waits in connect(): CancelledError
\* passes except Exception; finally releases the slot (lines 567-569).
CancelledInConnect ==
    /\ relay.pc = "connect"
    /\ manager' = remove_connection(manager, clock)
    /\ relay' = [relay EXCEPT !.pc = "done", !.removes = @ + 1]
    /\ UNCHANGED <<clock, RelayFrame>>

\* Variant of CancelledWithUpstream without the async-with block: cancellation
\* goes straight to the finally clause.
CancelledWithUpstream_unscoped ==
    /\ relay.pc \in {"handshake", "relay"}
    /\ manager' = remove_connection(manager, clock)
    /\ relay' = [relay EXCEPT
                   !.pc = "done", !.removes = @ + 1,
                   !.c2s = IF relay.pc = "relay" THEN PumpCancelled(@) ELSE @,
                   !.s2c = IF relay.pc = "relay" THEN PumpCancelled(@) ELSE @]
    /\ UNCHANGED <<clock, RelayFrame>>

\* The handler's task is cancelled with the upstream connection open (in the
\* setup send or in relay_messages): the pumps are cancelled with it and the
\* async-with exit closes the upstream connection.
CancelledWithUpstream ==
    /\ relay.pc \in {"handshake", "relay"}
    /\ relay' = [relay EXCEPT
                   !.pc = "exit_upstream_cancelled",
                   !.c2s = IF relay.pc = "relay" THEN PumpCancelled(@) ELSE @,
                   !.s2c = IF relay.pc = "relay" THEN PumpCancelled(@) ELSE @]
    /\ UNCHANGED <<manager, clock, RelayFrame>>

\* lines 522, 567-569: the upstream close after relay_messages returned is
\* done; finally releases the slot.
UpstreamClosedAfterRelay ==
    /\ relay.pc = "exit_upstream"
    /\ manager' = remove_connection(manager, clock)
    /\ relay' = [relay EXCEPT !.pc = "done", !.upstream = "closed", !.removes = @ + 1]
    /\ UNCHANGED <<clock, RelayFrame>>

\* lines 522, 561-564: the upstream close after the failed setup send is done;
\* except Exception suspends in websocket.close(1011).
UpstreamClosedAfterSetupError ==
    /\ relay.pc = "exit_upstream_error"
    /\ relay' = [relay EXCEPT !.pc = "close_error", !.upstream = "closed"]
    /\ UNCHANGED <<manager, clock, RelayFrame>>

\* lines 522, 567-569: the upstream close on cancellation is done; finally
\* releases the slot and CancelledError leaves the handler.
UpstreamClosedAfterCancel ==
    /\ relay.pc = "exit_upstream_cancelled"
    /\ manager' = remove_connection(manager, clock)
    /\ relay' = [relay EXCEPT !.pc = "done", !.upstream = "closed", !.removes = @ + 1]
    /\ UNCHANGED <<clock, RelayFrame>>

\* lines 563-569: websocket.close(1011) returns or raises (ignored); finally
\* releases the slot.
ClosedAfterError ==
    /\ relay.pc = "close_error"
    /\ manager' = remove_connection(manager, clock)
    /\ relay' = [relay EXCEPT !.pc = "done", !.removes = @ + 1, !.close_code = 1011]
    /\ UNCHANGED <<clock, RelayFrame>>

\* A second passes: while the connection is being set up, or inside
\* relay_messages before the deadline (at the deadline wait_for acts).
RelayTick ==
    /\ \/ relay.pc \in {"connect", "handshake"} /\ clock < MaxSetupSeconds
       \/ relay.pc = "relay" /\ clock < Deadline
    /\ clock' = clock + 1
    /\ UNCHANGED <<manager, relay, RelayFrame>>

(* ------------------- get_cached_token on its own ---------------------- *)

\* last_call records the latest call: the clock when it was entered (`at`) and
\* when it returned (`returned_at`), the cache it found, the provider's answer
\* (`ok`, meaningful when `fetch`), whether the provider was contacted, how
\* many round trips the provider had served before, and the value returned.
NoCall ==
    [ at |-> 0, returned_at |-> 0, cache_before |-> None, expiry_before |-> None,
      ok |-> FALSE, fetch |-> FALSE, calls_before |-> 0, ret |-> None ]

\* One call of manager.get_cached_token(); a refresh blocks for d minutes, and
\* the credential is issued when the provider answers.
TokenCall ==
    /\ token_calls < MaxTokenCalls
    /\ \E ok \in BOOLEAN, d \in 0..MaxFetchMinutes :
         LET fetched == get_access_token(ok, provider_calls + 1, clock + d)
             r       == get_cached_token(manager, clock, fetched)
         IN  /\ r.fetch => (provider_calls < MaxFetches /\ clock + d <= MaxClock)
             /\ ~r.fetch => (d = 0 /\ ok)
             /\ manager' = r.manager
             /\ provider_calls' = IF r.fetch THEN provider_calls + 1 ELSE provider_calls
             /\ clock' = IF r.fetch THEN clock + d ELSE clock
             /\ token_calls' = token_calls + 1
             /\ last_call' =
                    [ at |-> clock, returned_at |-> clock',
                      cache_before |-> manager.token_cache,
                      expiry_before |-> manager.token_expiry,
                      ok |-> ok, fetch |-> r.fetch,
                      calls_before |-> provider_calls, ret |-> r.ret ]
    /\ UNCHANGED <<dbVars, conn, storeVars, sessionVars>>

\* Time passes between calls.
Tick ==
    /\ clock + TickMinutes <= MaxClock
    /\ clock' = clock + TickMinutes
    /\ UNCHANGED <<manager, provider_calls, dbVars, conn, tokenVars, storeVars, sessionVars>>

InitToken ==
    /\ manager = ConnectionManager_init
    /\ clock = 0
    /\ provider_calls = 0
    /\ interview_configs = EmptyDict
    /\ interview_sessions = << >>
    /\ conn = [h \in Handlers |-> NewLocals(h, "default")]
    /\ token_calls = 0
    /\ last_call = NoCall
    /\ client = [p \in Clients |-> Idle]
    /\ last_return = None
    /\ prompt = NoPrompt
    /\ relay = NoRelay

NextToken == TokenCall \/ Tick

SpecToken == InitToken /\ [][NextToken]_vars

(* ------------------- connection_history on its own -------------------- *)

\* Connections that come one at a time, with the clock standing still, before
\* arrivals, departures and the clock are left free; each leaves two entries
\* in connection_history.
ServedBefore == 49

\* main.py 400-406: a connection passes the capacity check and is recorded.
Arrive ==
    /\ can_accept_connection(manager)
    /\ manager.total_connections < ServedBefore + MaxArrivals
    /\ manager.total_connections < ServedBefore => manager.active_connections = 0
    /\ manager' = add_connection(manager, clock)
    /\ UNCHANGED <<clock, provider_calls, dbVars, conn, tokenVars, storeVars, sessionVars>>

\* main.py 567-569: the finally clause of a recorded connection releases it.
Leave ==
    /\ manager.active_connections > 0
    /\ manager' = remove_connection(manager, clock)
    /\ UNCHANGED <<clock, provider_calls, dbVars, conn, tokenVars, storeVars, sessionVars>>

\* Time passes between arrivals and departures.
HistoryTick ==
    /\ manager.total_connections >= ServedBefore
    /\ clock < MaxHistoryClock
    /\ clock' = clock + 1
    /\ UNCHANGED <<manager, provider_calls, dbVars, conn, tokenVars, storeVars, sessionVars>>

InitHistory ==
    /\ manager = ConnectionManager_init
    /\ clock = 0
    /\ provider_calls = 0
    /\ interview_configs = EmptyDict
    /\ interview_sessions = << >>
    /\ conn = [h \in Handlers |-> NewLocals(h, "default")]
    /\ token_calls = 0
    /\ last_call = NoCall
    /\ client = [p \in Clients |-> Idle]
    /\ last_return = None
    /\ prompt = NoPrompt
    /\ relay = NoRelay

NextHistory == Arrive \/ Leave \/ HistoryTick

SpecHistory == InitHistory /\ [][NextHistory]_vars

(* ------------------------ telemetry routes ---------------------------- *)

\* config_routes.py start_session: a session document under a fresh id.
StartSession(sid) ==
    /\ sid \notin DOMAIN interview_sessions
    /\ \E tok \in Tokens :
          interview_sessions' = create_session(interview_sessions, tok, sid, clock)
    /\ UNCHANGED <<managerVars, interview_configs, conn, tokenVars, storeVars, sessionVars>>

\* config_routes.py log_latency_measurement: one whole log_latency call, for
\* any session id, known or not.
LogLatency(sid, input) ==
    /\ TotalLogs(interview_sessions) + TotalSamples(interview_sessions) < MaxLogs
    /\ LET r == log_latency(interview_sessions, sid, input[1], input[2], clock)
       IN  /\ interview_sessions' = r.sessions
           /\ last_return' = << r.ret >>
    /\ UNCHANGED <<managerVars, interview_configs, conn, tokenVars, client, sessionVars>>

InitTelemetry ==
    /\ manager = ConnectionManager_init
    /\ clock = 0
    /\ provider_calls = 0
    /\ interview_configs = EmptyDict
    /\ interview_sessions = << >>
    /\ conn = [h \in Handlers |-> NewLocals(h, "default")]
    /\ token_calls = 0
    /\ last_call = NoCall
    /\ client = [p \in Clients |-> Idle]
    /\ last_return = None
    /\ prompt = NoPrompt
    /\ relay = NoRelay

NextLatency ==
    \/ \E sid \in SessionIds : StartSession(sid)
    \/ \E sid \in SessionIds, input \in LatencyInputs : LogLatency(sid, input)

SpecLatency == InitTelemetry /\ [][NextLatency]_vars

(* --------------------- the session routes together -------------------- *)

\* config_routes.py log_network: one log_network_quality call, for any session
\* id, known or not.
LogNetwork(sid, sample) ==
    /\ TotalLogs(interview_sessions) + TotalSamples(interview_sessions) < MaxLogs
    /\ interview_sessions' =
          log_network_quality(interview_sessions, sid, sample[1], sample[2], clock)
    /\ UNCHANGED <<managerVars, interview_configs, conn, tokenVars, storeVars, sessionVars>>

\* config_routes.py end_interview_session: one end_session call, for any
\* session id, known or not; the route answers "ended" either way.
EndSession(sid) ==
    /\ interview_sessions' = end_session(interview_sessions, sid, clock)
    /\ UNCHANGED <<managerVars, interview_configs, conn, tokenVars, storeVars, sessionVars>>

\* The session ids the requests of SpecSession name: the session a client
\* works with and one other id.
RequestIds == {1, 2}

\* The collection when the requests start coming: empty, or holding a session
\* that was started and ended a minute ago.
EarlierSessions ==
    { << >>, end_session(create_session(<< >>, "default", 1, 0), 1, 0) }

\* The measurements the requests of SpecSession report: an ordinary one, a
\* negative one and a zero.
RequestLatencyInputs == { <<1000, 1450>>, <<3, 0>>, <<0, 0>> }

InitSession ==
    /\ manager = ConnectionManager_init
    /\ clock = 1
    /\ provider_calls = 0
    /\ interview_configs = EmptyDict
    /\ interview_sessions \in EarlierSessions
    /\ conn = [h \in Handlers |-> NewLocals(h, "default")]
    /\ token_calls = 0
    /\ last_call = NoCall
    /\ client = [p \in Clients |-> Idle]
    /\ last_return = None
    /\ prompt = NoPrompt
    /\ relay = NoRelay

NextSession ==
    \/ \E sid \in RequestIds : StartSession(sid)
    \/ \E sid \in RequestIds, input \in RequestLatencyInputs : LogLatency(sid, input)
    \/ \E sid \in RequestIds, sample \in NetworkSamples : LogNetwork(sid, sample)
    \/ \E sid \in RequestIds : EndSession(sid)

SpecSession == InitSession /\ [][NextSession]_vars

\* The three store operations of log_latency, issued one at a time by a store
\* client; other clients' operations and reads may fall in between.
ClientPush(p, sid, input) ==
    /\ client[p].pc = "idle"
    /\ TotalLogs(interview_sessions) < MaxLogs
    /\ interview_sessions' =
          push_latency(interview_sessions, sid, log_entry(input[1], input[2], clock))
    /\ client' = [client EXCEPT ![p] = [ pc |-> "pushed", sid |-> sid, found |-> None ]]
    /\ UNCHANGED <<managerVars, interview_configs, conn, tokenVars, last_return, sessionVars>>

ClientFind(p) ==
    /\ client[p].pc = "pushed"
    /\ client' = [client EXCEPT
                    ![p].pc = "found",
                    ![p].found = find_latencies(interview_sessions, client[p].sid)]
    /\ UNCHANGED <<managerVars, dbVars, conn, tokenVars, last_return, sessionVars>>

ClientSet(p) ==
    /\ client[p].pc = "found"
    /\ interview_sessions' =
          set_latency_stats(interview_sessions, client[p].sid, client[p].found)
    /\ client' = [client EXCEPT ![p] = Idle]
    /\ UNCHANGED <<managerVars, interview_configs, conn, tokenVars, last_return, sessionVars>>

NextStore ==
    \/ \E sid \in SessionIds : StartSession(sid)
    \/ \E p \in Clients, sid \in SessionIds, input \in LatencyInputs :
          ClientPush(p, sid, input)
    \/ \E p \in Clients : ClientFind(p)
    \/ \E p \in Clients : ClientSet(p)

SpecStore == InitTelemetry /\ [][NextStore]_vars

(* -------------------- the handlers' specification --------------------- *)

\* The collection at start: any of the tokens has a document made by
\* create_config, and the document of a client token may have been deleted.
ConfigStores ==
    { [ t \in S |-> create_config([ token |-> t ]) ] : S \in SUBSET Tokens }
    \cup { [ t \in {"acme"} |-> delete_config(create_config([ token |-> t ])) ] }

\* The clients present "acme" or "default"; the handlers run the same code, so
\* it is the number of clients per token that matters, not which handler
\* serves which.
Init ==
    /\ manager = ConnectionManager_init
    /\ clock = 0
    /\ provider_calls = 0
    /\ interview_configs \in ConfigStores
    /\ interview_sessions = << >>
    /\ \E k \in 0..NumHandlers :
          conn = [h \in Handlers |-> NewLocals(h, IF h <= k THEN "acme" ELSE "default")]
    /\ token_calls = 0
    /\ last_call = NoCall
    /\ client = [p \in Clients |-> Idle]
    /\ last_return = None
    /\ prompt = NoPrompt
    /\ relay = NoRelay

Next ==
    \/ \E h \in Handlers : CheckCapacity(h)
    \/ \E h \in Handlers : CloseAtCapacity(h)
    \/ \E h \in Handlers : Admit(h)
    \/ \E h \in Handlers : CloseNoConfig(h)
    \/ \E h \in Handlers : SendConfigFails(h)
    \/ \E h \in Handlers : SendConfigReturns(h)
    \/ \E h \in Handlers : CloseAuth(h)
    \/ \E h \in Handlers : ConnectReturns(h)
    \/ \E h \in Handlers : ConnectFails(h)
    \/ \E h \in Handlers : HandshakeReturns(h)
    \/ \E h \in Handlers : HandshakeFails(h)
    \/ \E h \in Handlers : ResumptionOffered(h)
    \/ \E h \in Handlers : RelayReturns(h)
    \/ \E h \in Handlers : UpstreamClosedAfterError(h)
    \/ \E h \in Handlers : UpstreamClosed(h)
    \/ \E h \in Handlers : CloseAfterError(h)

Spec == Init /\ [][Next]_vars

(* ------------------ instruction building on its own ------------------ *)

InitPrompt ==
    /\ manager = ConnectionManager_init
    /\ clock = 0
    /\ provider_calls = 0
    /\ interview_configs = EmptyDict
    /\ interview_sessions = << >>
    /\ conn = [h \in Handlers |-> NewLocals(h, "default")]
    /\ token_calls = 0
    /\ last_call = NoCall
    /\ client = [p \in Clients |-> Idle]
    /\ last_return = None
    /\ \E cfg \in Configs : prompt = [ NoPrompt EXCEPT !.pc = "loaded", !.config = cfg ]
    /\ relay = NoRelay

NextPrompt ==
    \/ SelectPrompt
    \/ SendSetup
    \/ NextConnection
    \/ OtherConnects
    \/ Tick

SpecPrompt == InitPrompt /\ [][NextPrompt]_vars

(* -------------------------- one relayed session ----------------------- *)

\* The connection was accepted and admitted at time 0 (lines 405-406), its
\* configuration and credential were found, and its handler waits in connect().
InitRelay ==
    /\ manager = add_connection(ConnectionManager_init, 0)
    /\ clock = 0
    /\ provider_calls = 0
    /\ interview_configs = EmptyDict
    /\ interview_sessions = << >>
    /\ conn = [h \in Handlers |-> NewLocals(h, "default")]
    /\ token_calls = 0
    /\ last_call = NoCall
    /\ client = [p \in Clients |-> Idle]
    /\ last_return = None
    /\ prompt = NoPrompt
    /\ relay = [ NoRelay EXCEPT !.pc = "connect" ]

NextRelay ==
    \/ OpenUpstream
    \/ OpenUpstreamFails
    \/ StartRelay
    \/ SetupSendFails
    \/ \E message \in ClientFrames : C2S_Receive(message)
    \/ C2S_Disconnect
    \/ C2S_SendReturns
    \/ C2S_SendFails
    \/ \E message \in UpstreamFrames : S2C_Receive(message)
    \/ S2C_UpstreamCloses
    \/ S2C_SendReturns
    \/ S2C_SendFails
    \/ GatherReturns
    \/ RelayTimeout
    \/ CancelledInConnect
    \/ CancelledWithUpstream
    \/ UpstreamClosedAfterRelay
    \/ UpstreamClosedAfterSetupError
    \/ UpstreamClosedAfterCancel
    \/ ClosedAfterError
    \/ RelayTick

SpecRelay == InitRelay /\ [][NextRelay]_vars

\* What the event loop and the clock do without any peer acting: time passes,
\* the wait_for timer fires at its deadline, a finished gather returns, and a
\* close that was started completes.  Nothing is assumed of the peers: frames
\* may stop coming and a pending send may never return.
RelayFairness ==
    /\ WF_vars(RelayTick)
    /\ WF_vars(RelayTimeout)
    /\ WF_vars(GatherReturns)
    /\ WF_vars(UpstreamClosedAfterRelay)
    /\ WF_vars(UpstreamClosedAfterSetupError)
    /\ WF_vars(UpstreamClosedAfterCancel)
    /\ WF_vars(ClosedAfterError)

\* For the teardown only the fate of a frame matters: forwarded, or ending the
\* pump that read it.  One frame of each kind per direction.
TeardownClientFrames ==
    { Frame("object", [ realtimeInput |-> "chunk" ]), Frame("invalid", EmptyDict) }

TeardownUpstreamFrames ==
    { Frame("object", [ serverContent |-> "modelTurn" ]), Frame("invalid", EmptyDict) }

NextRelayLive ==
    \/ OpenUpstream
    \/ OpenUpstreamFails
    \/ StartRelay
    \/ SetupSendFails
    \/ \E message \in TeardownClientFrames : C2S_Receive(message)
    \/ C2S_Disconnect
    \/ C2S_SendReturns
    \/ C2S_SendFails
    \/ \E message \in TeardownUpstreamFrames : S2C_Receive(message)
    \/ S2C_UpstreamCloses
    \/ S2C_SendReturns
    \/ S2C_SendFails
    \/ GatherReturns
    \/ RelayTimeout
    \/ CancelledInConnect
    \/ CancelledWithUpstream
    \/ UpstreamClosedAfterRelay
    \/ UpstreamClosedAfterSetupError
    \/ UpstreamClosedAfterCancel
    \/ ClosedAfterError
    \/ RelayTick

SpecRelayLive == InitRelay /\ [][NextRelayLive]_vars /\ RelayFairness

(* ----------------- the generated instruction on its own ---------------- *)

InitBuild ==
    /\ manager = ConnectionManager_init
    /\ clock = 0
    /\ provider_calls = 0
    /\ interview_configs = EmptyDict
    /\ interview_sessions = << >>
    /\ conn = [h \in Handlers |-> NewLocals(h, "default")]
    /\ token_calls = 0
    /\ last_call = NoCall
    /\ client = [p \in Clients |-> Idle]
    /\ last_return = None
    /\ \E cfg \in BuildConfigs : prompt = [ NoPrompt EXCEPT !.pc = "loaded", !.config = cfg ]
    /\ relay = NoRelay

NextBuild ==
    \/ SelectPrompt
    \/ SendSetup

SpecBuild == InitBuild /\ [][NextBuild]_vars

(* ======================= credential properties ======================== *)

Called == token_calls > 0

\* The test of line 237 on the cache as the latest call found it.
FoundFresh ==
    /\ last_call.cache_before # None
    /\ last_call.expiry_before # None
    /\ last_call.at < last_call.expiry_before[1]

\* C8: when the credential fetch fails, get_cached_token returns None and
\* token_cache and token_expiry are what they were before the call.
C8_FailedFetchKeepsCache ==
    (Called /\ last_call.fetch /\ ~last_call.ok) =>
        /\ last_call.ret = None
        /\ manager.token_cache = last_call.cache_before
        /\ manager.token_expiry = last_call.expiry_before

\* A refresh failed while an expired credential was cached.
C8_Witness ==
    /\ Called /\ last_call.fetch /\ ~last_call.ok
    /\ last_call.cache_before # None
    /\ last_call.at >= last_call.expiry_before[1]

\* C9: the cached token is returned, and the provider not contacted, exactly
\* when a token is cached and the call time is before token_expiry; otherwise
\* the provider is called exactly once and, on success, token and expiry are
\* overwritten together and the new token returned.
C9_CacheHitExactlyWhenFresh ==
    /\ (manager.token_cache = None) <=> (manager.token_expiry = None)
    /\ Called =>
          /\ FoundFresh <=> ~last_call.fetch
          /\ FoundFresh =>
                /\ last_call.ret = last_call.cache_before
                /\ provider_calls = last_call.calls_before
                /\ manager.token_cache = last_call.cache_before
                /\ manager.token_expiry = last_call.expiry_before
          /\ ~FoundFresh =>
                /\ provider_calls = last_call.calls_before + 1
                /\ last_call.ok =>
                      /\ last_call.ret # None
                      /\ last_call.ret[1].id = provider_calls
                      /\ manager.token_cache = last_call.ret
                      /\ manager.token_expiry = << last_call.at + CACHE_MINUTES >>

\* Both cases have happened: the latest call was served from the cache, by a
\* credential that an earlier refresh had put in place of an expired one.
C9_Witness ==
    /\ Called /\ ~last_call.fetch
    /\ last_call.ret # None /\ last_call.ret[1].id = 2
    /\ last_call.at > 0

\* C10: the stored expiry is the call time plus 50 minutes and never later than
\* the credential's real expiry (issue time plus 60 minutes); a cached token is
\* never returned at or after its stored expiry; every token returned is
\* within its real validity window when it is returned.
C10_ReturnedTokenValid ==
    /\ manager.token_cache # None =>
          manager.token_expiry[1] <= manager.token_cache[1].issued + TOKEN_VALID_MINUTES
    /\ (Called /\ last_call.fetch /\ last_call.ok) =>
          manager.token_expiry[1] = last_call.at + CACHE_MINUTES
    /\ (Called /\ ~last_call.fetch) =>
          last_call.at < last_call.expiry_before[1]
    /\ (Called /\ last_call.ret # None) =>
          /\ last_call.ret[1].issued <= last_call.returned_at
          /\ last_call.returned_at < last_call.ret[1].issued + TOKEN_VALID_MINUTES

\* A cached token was returned in the last tick before its stored expiry,
\* after a refresh that took time.
C10_Witness ==
    /\ Called /\ ~last_call.fetch
    /\ last_call.ret # None
    /\ last_call.ret[1].issued > last_call.expiry_before[1] - CACHE_MINUTES
    /\ last_call.at + TickMinutes >= last_call.expiry_before[1]

(* ======================= telemetry properties ========================= *)

LatenciesOf(doc) == [ i \in 1..Len(doc.latencyLogs) |-> doc.latencyLogs[i].latencyMs ]

IsMaxOf(x, xs) == (\E i \in 1..Len(xs) : xs[i] = x) /\ (\A i \in 1..Len(xs) : xs[i] <= x)
IsMinOf(x, xs) == (\E i \in 1..Len(xs) : xs[i] = x) /\ (\A i \in 1..Len(xs) : x <= xs[i])

\* q is sum/n rounded down.
IsFloorOf(q, sum, n) == q * n <= sum /\ sum < (q + 1) * n

\* q is sum/n rounded toward zero.
IsTruncationOf(q, sum, n) ==
    IF sum >= 0 THEN q >= 0 /\ q * n <= sum /\ sum < (q + 1) * n
                ELSE q <= 0 /\ sum <= q * n /\ (q - 1) * n < sum

\* C6 as stated: after every log_latency call the stored average is
\* floor(sum/count), the stored maximum and minimum are those of the log.
C6_AverageIsFloor ==
    \A sid \in DOMAIN interview_sessions :
        LET doc == interview_sessions[sid]
            xs  == LatenciesOf(doc)
        IN  xs # <<>> =>
              /\ IsFloorOf(doc.averageLatencyMs, py_sum(xs), Len(xs))
              /\ IsMaxOf(doc.maxLatencyMs, xs)
              /\ IsMinOf(doc.minLatencyMs, xs)

\* C6 amended: after every log_latency call the stored average is sum/count
\* rounded toward zero (the floor only when the sum is not negative), the
\* stored maximum and minimum are those of the whole log.
C6_AverageIsTruncation ==
    \A sid \in DOMAIN interview_sessions :
        LET doc == interview_sessions[sid]
            xs  == LatenciesOf(doc)
        IN  xs # <<>> =>
              /\ IsTruncationOf(doc.averageLatencyMs, py_sum(xs), Len(xs))
              /\ py_sum(xs) >= 0 =>
                    IsFloorOf(doc.averageLatencyMs, py_sum(xs), Len(xs))
              /\ IsMaxOf(doc.maxLatencyMs, xs)
              /\ IsMinOf(doc.minLatencyMs, xs)

\* A session whose log sums to a negative number that the count does not
\* divide: ( -3, 0 ) gives the average -1, where the floor is -2.
C6_Witness ==
    \E sid \in DOMAIN interview_sessions :
        LET doc == interview_sessions[sid]
            xs  == LatenciesOf(doc)
        IN  /\ Len(xs) = 2
            /\ py_sum(xs) = -3
            /\ doc.averageLatencyMs = -1
            /\ doc.minLatencyMs = -3 /\ doc.maxLatencyMs = 0

\* C7: at every point a reader of the store can observe, steps of a running
\* log_latency call included, the stored aggregates of a session with a
\* non-empty log are those computed from its current latencyLogs.
C7_AggregatesDerivableAtEveryPoint ==
    \A sid \in DOMAIN interview_sessions :
        LET doc == interview_sessions[sid]
            xs  == LatenciesOf(doc)
        IN  Len(xs) > 0 =>
              /\ doc.averageLatencyMs = py_int_div(py_sum(xs), Len(xs))
              /\ IsMaxOf(doc.maxLatencyMs, xs)
              /\ IsMinOf(doc.minLatencyMs, xs)

\* C7 once no call is in progress: the drift can outlast the calls.
C7_AggregatesDerivableWhenQuiescent ==
    (\A p \in Clients : client[p].pc = "idle") => C7_AggregatesDerivableAtEveryPoint

(* ======================= admission properties ========================= *)

AllDone == \A h \in Handlers : conn[h].pc = "done"

\* C1: in every interleaving of the handlers, active_connections stays between
\* 0 and MAX_CONCURRENT_CONNECTIONS.
C1_ActiveWithinCapacity ==
    /\ manager.active_connections >= 0
    /\ manager.active_connections <= MAX_CONCURRENT_CONNECTIONS

\* C2: every admitted connection has released its slot by the time its handler
\* has finished, whatever path it took; once all handlers have finished,
\* active_connections is 0.
C2_SlotReleasedOnEveryPath ==
    /\ \A h \in Handlers :
          (conn[h].pc = "done" /\ conn[h].adds > 0) => conn[h].removes > 0
    /\ AllDone => manager.active_connections = 0

\* C3: no handler calls remove_connection more than once, none calls it without
\* having called add_connection, and a handler rejected at capacity calls
\* neither.
C3_ReleaseAtMostOnce ==
    \A h \in Handlers :
        /\ conn[h].removes <= 1
        /\ conn[h].removes <= conn[h].adds
        /\ (conn[h].pc = "close_capacity" \/ conn[h].close_code = 1008)
              => (conn[h].adds = 0 /\ conn[h].removes = 0)

\* A handler was rejected at capacity and another one, admitted, went through
\* the relay and released its slot in the finally clause.
C3_Witness ==
    \E h, g \in Handlers :
        /\ conn[h].pc = "done" /\ conn[h].close_code = 1008
        /\ conn[g].pc = "done" /\ conn[g].close_code = 0
        /\ conn[g].adds = 1 /\ conn[g].removes = 1

\* C4: with active_connections at the maximum an admission attempt is denied and
\* the denial (check and close) leaves the manager untouched; a
\* remove_connection made at the maximum leaves the manager accepting again.
C4_DeniedAtCapacity ==
    [][ \A h \in Handlers :
          /\ ( /\ conn[h].pc = "start"
               /\ conn'[h].pc # "start"
               /\ manager.active_connections = MAX_CONCURRENT_CONNECTIONS )
             => ( /\ conn'[h].pc = "close_capacity"
                  /\ manager'.active_connections = manager.active_connections
                  /\ manager'.total_connections = manager.total_connections
                  /\ manager'.connection_history = manager.connection_history )
          /\ ( conn[h].pc = "close_capacity" /\ conn'[h].pc # "close_capacity" )
             => ( /\ conn'[h].close_code = 1008
                  /\ conn'[h].adds = 0
                  /\ manager'.active_connections = manager.active_connections
                  /\ manager'.total_connections = manager.total_connections
                  /\ manager'.connection_history = manager.connection_history )
          /\ ( /\ conn'[h].removes = conn[h].removes + 1
               /\ conn'[h].adds = conn[h].adds
               /\ manager.active_connections = MAX_CONCURRENT_CONNECTIONS )
             => manager'.active_connections < MAX_CONCURRENT_CONNECTIONS
      ]_vars

\* One connection was denied while the ceiling was reached, the connection that
\* held the slot released it, and the manager accepts again.
C4_Witness ==
    \E h, g \in Handlers :
        /\ conn[h].close_code = 1008
        /\ conn[g].removes = 1
        /\ manager.total_connections = MAX_CONCURRENT_CONNECTIONS
        /\ manager.active_connections = MAX_CONCURRENT_CONNECTIONS - 1

\* C5: a granted admission adds 1 to active_connections and to
\* total_connections and appends one 'connected' entry; remove_connection sets
\* active_connections to max(0, active_connections - 1), leaves
\* total_connections alone and appends one 'disconnected' entry.  (An admission
\* that finds no configuration does both in one step.)
C5_CounterEffects ==
    [][ /\ ( \A g \in Handlers : conn'[g].adds = conn[g].adds
                                 /\ conn'[g].removes = conn[g].removes )
           => ( /\ manager'.active_connections = manager.active_connections
                /\ manager'.total_connections = manager.total_connections
                /\ manager'.connection_history = manager.connection_history )
        /\ \A h \in Handlers :
          LET a    == manager.active_connections
              t    == manager.total_connections
              hist == manager.connection_history
              n    == Len(hist)
              a2   == manager'.active_connections
              t2   == manager'.total_connections
              h2   == manager'.connection_history
              added   == conn'[h].adds = conn[h].adds + 1
              removed == conn'[h].removes = conn[h].removes + 1
          IN  /\ (added /\ ~removed) =>
                    /\ a2 = a + 1 /\ t2 = t + 1
                    /\ Len(h2) = n + 1 /\ SubSeq(h2, 1, n) = hist
                    /\ h2[n + 1].action = "connected"
                    /\ h2[n + 1].active = a + 1 /\ h2[n + 1].total = t + 1
              /\ (removed /\ ~added) =>
                    /\ a2 = (IF a >= 1 THEN a - 1 ELSE 0) /\ t2 = t
                    /\ Len(h2) = n + 1 /\ SubSeq(h2, 1, n) = hist
                    /\ h2[n + 1].action = "disconnected"
                    /\ h2[n + 1].active = a2
              /\ (added /\ removed) =>
                    /\ a2 = a /\ t2 = t + 1
                    /\ Len(h2) = n + 2 /\ SubSeq(h2, 1, n) = hist
                    /\ h2[n + 1].action = "connected"
                    /\ h2[n + 1].active = a + 1 /\ h2[n + 1].total = t + 1
                    /\ h2[n + 2].action = "disconnected"
                    /\ h2[n + 2].active = a
      ]_vars

\* One connection has been admitted and has released its slot.
C5_Witness ==
    /\ manager.active_connections = 0
    /\ manager.total_connections = 1
    /\ Len(manager.connection_history) = 2
    /\ manager.connection_history[1].action = "connected"
    /\ manager.connection_history[2].action = "disconnected"
    /\ \E h \in Handlers : conn[h].pc = "done" /\ conn[h].adds = 1 /\ conn[h].removes = 1
            /\ conn[h].close_code = 0

(* ======================== set-up properties =========================== *)

\* The collection holds an active document under the token.
HasActiveConfig(tok) ==
    /\ tok \in DOMAIN interview_configs
    /\ interview_configs[tok]["isActive"] = TRUE

\* Lookups that found the document of the token: those made under the token
\* itself and, for "default", the fallback lookups of the other connections.
LookupsThatFound(tok) ==
    Cardinality({ h \in Handlers : conn[h].lookups = 1 /\ conn[h].token = tok })
    + Cardinality({ h \in Handlers : /\ tok = "default"
                                     /\ conn[h].lookups = 2
                                     /\ HasActiveConfig("default") })

SessionCreatedFor(h) == conn[h].session_id \in DOMAIN interview_sessions

\* C21: the configuration is looked up under the client's token and under
\* "default" only when the first lookup finds nothing; when both find nothing
\* the connection is closed with 1011 "Configuration not found" and has sent no
\* config message, created no session, asked for no credential and opened no
\* upstream connection.
C21_NoConfigurationIsTerminal ==
    /\ \A tok \in DOMAIN interview_configs :
          interview_configs[tok]["usageCount"] = LookupsThatFound(tok)
    /\ \A h \in Handlers :
          LET c       == conn[h]
              neither == ~HasActiveConfig(c.token) /\ ~HasActiveConfig("default")
          IN  /\ c.lookups \in 0..2
              /\ c.lookups = 1 => HasActiveConfig(c.token)
              /\ c.lookups = 2 => ~HasActiveConfig(c.token)
              /\ (c.lookups = 2 /\ neither) =>
                    /\ c.pc \in {"close_noconfig", "done"}
                    /\ c.pc = "done" =>
                          /\ c.close_code = 1011
                          /\ c.close_reason = "Configuration not found"
                    /\ c.echoes = 0
                    /\ c.fetches = 0
                    /\ c.connects = 0
                    /\ ~SessionCreatedFor(h)
              /\ (c.pc = "close_noconfig" \/ c.close_reason = "Configuration not found")
                    => (c.lookups = 2 /\ neither)

\* A client whose token has only a deleted document, with no "default"
\* document, has been closed with "Configuration not found".
C21_Witness ==
    \E h \in Handlers :
        /\ conn[h].pc = "done"
        /\ conn[h].close_code = 1011
        /\ conn[h].close_reason = "Configuration not found"
        /\ conn[h].lookups = 2
        /\ conn[h].token \in DOMAIN interview_configs

\* The handler holds, or has held, an upstream connection or a pending
\* connect().
PastCredential(h) ==
    conn[h].pc \in {"connect", "handshake", "relay", "relay_goaway", "exit_upstream",
                    "exit_upstream_error", "close_error"}

\* C22: a connection for which get_cached_token returned nothing calls
\* connect() never (so it sends no setup message and relays nothing), is closed
\* with 1011 "Authentication failed", and has asked the provider exactly once;
\* no connection asks the provider twice.
C22_NoCredentialIsTerminal ==
    \A h \in Handlers :
        LET c == conn[h]
        IN  /\ c.fetches <= 1
            /\ PastCredential(h) => (c.connects = 1 /\ c.close_reason = "")
            /\ (c.pc # "done" /\ PastCredential(h)) => Truthy(c.access_token)
            /\ (c.echoes = 1 /\ c.connects = 0) =>
                  /\ c.pc \in {"close_auth", "done"}
                  /\ c.fetches = 1
                  /\ c.removes = 1
                  /\ ~Truthy(c.access_token)
                  /\ c.pc = "done" =>
                        /\ c.close_code = 1011
                        /\ c.close_reason = "Authentication failed"
            /\ (c.pc = "close_auth" \/ c.close_reason = "Authentication failed")
                  => (c.echoes = 1 /\ c.connects = 0)

\* The provider failed for one connection, which was closed with
\* "Authentication failed", and then served another connection, which went on
\* to connect().
C22_Witness ==
    \E h, g \in Handlers :
        /\ conn[h].pc = "done"
        /\ conn[h].close_code = 1011
        /\ conn[h].close_reason = "Authentication failed"
        /\ conn[h].fetches = 1
        /\ conn[g].connects = 1
        /\ provider_calls = 2

\* Calls of one kind made over all connections.
CallsMade(field) == py_sum([ h \in 1..NumHandlers |-> conn[h][field] ])

\* C23: a connection denied at capacity is closed with 1008 without having
\* been accepted, and nothing is done for it: no configuration lookup, no
\* config message, no session, no credential request, no connect(); the
\* counters, the history, the provider and the collections show only what the
\* other connections did.
C23_DenialHasNoOtherEffect ==
    /\ \A h \in Handlers :
          (conn[h].pc = "close_capacity" \/ conn[h].close_code = 1008) =>
              /\ conn[h].adds = 0
              /\ conn[h].removes = 0
              /\ conn[h].lookups = 0
              /\ conn[h].echoes = 0
              /\ conn[h].fetches = 0
              /\ conn[h].connects = 0
              /\ ~SessionCreatedFor(h)
              /\ conn[h].pc = "done" => conn[h].close_reason = "Server at capacity"
    /\ manager.total_connections = CallsMade("adds")
    /\ Len(manager.connection_history) = CallsMade("adds") + CallsMade("removes")
    /\ manager.active_connections = CallsMade("adds") - CallsMade("removes")
    /\ provider_calls = CallsMade("fetches")
    /\ \A h \in Handlers : SessionCreatedFor(h) => conn[h].echoes = 1
    /\ \A tok \in DOMAIN interview_configs :
          interview_configs[tok]["usageCount"] <=
              Cardinality({ h \in Handlers : conn[h].lookups > 0 })

\* A connection was denied while another one, admitted, had looked up its
\* configuration, received the config message and got a session and a
\* credential.
C23_Witness ==
    \E h, g \in Handlers :
        /\ conn[h].pc = "done"
        /\ conn[h].close_code = 1008
        /\ conn[h].close_reason = "Server at capacity"
        /\ conn[g].lookups > 0 /\ conn[g].echoes = 1 /\ conn[g].fetches = 1
        /\ SessionCreatedFor(g)
        /\ manager.total_connections = 1
        /\ provider_calls = 1

\* The lookups of the connection have returned a configuration.
ConfigResolved(h) ==
    /\ conn[h].lookups > 0
    /\ HasActiveConfig(conn[h].token) \/ HasActiveConfig("default")

\* The send_json of line 498 raised: the exception left the handler, which
\* made no further call.
ConfigSendRaised(h) ==
    /\ conn[h].pc = "done"
    /\ conn[h].echoes = 0
    /\ conn[h].close_code = 0
    /\ conn[h].fetches = 0
    /\ conn[h].connects = 0
    /\ ~SessionCreatedFor(h)

\* C25: a connection whose configuration was resolved is sent the config
\* message once and never twice; the message has been sent before connect()
\* is called, hence before anything is relayed, and before any close is sent
\* to the client.  (When the send itself raises because the client has gone,
\* the handler ends there.)
C25_ConfigMessageOnceAndFirst ==
    \A h \in Handlers :
        LET c == conn[h]
        IN  /\ c.echoes <= 1
            /\ c.echoes = 1 => ConfigResolved(h)
            /\ ConfigResolved(h) =>
                  \/ c.pc = "send_config" /\ c.echoes = 0 /\ c.connects = 0
                  \/ c.echoes = 1
                  \/ ConfigSendRaised(h)
            /\ c.connects > 0 => c.echoes = 1
            /\ c.pc \in {"connect", "handshake", "relay", "relay_goaway"} => c.echoes = 1
            /\ (ConfigResolved(h) /\ c.close_code # 0) => c.echoes = 1

\* A connection is in relay_messages, having been sent the config message
\* before it called connect().
C25_Witness ==
    \E h \in Handlers :
        /\ conn[h].pc = "relay"
        /\ conn[h].echoes = 1
        /\ conn[h].connects = 1
        /\ ConfigResolved(h)

(* ------------------------ handlers and the credential ------------------ *)

\* The connection's get_cached_token call went to the provider and came back
\* with a token.
Refreshed(h) ==
    /\ conn[h].fetches = 1
    /\ conn[h].pc # "close_auth"
    /\ conn[h].close_reason # "Authentication failed"

\* The connection holds a token that its get_cached_token call returned.
HoldsToken(h) == conn[h].pc # "done" /\ Truthy(conn[h].access_token)

\* C38: of the handlers that call get_cached_token while no unexpired token is
\* cached, the first whose fetch succeeds is the only one that contacts the
\* provider for that expiry: the call runs without suspending, so every later
\* handler finds the new token in the cache and is served from it.
C38_OneRefreshForAllHandlers ==
    /\ Cardinality({ h \in Handlers : conn[h].fetches = 1 }) = provider_calls
    /\ Cardinality({ h \in Handlers : Refreshed(h) }) <= 1
    /\ (Truthy(manager.token_cache) /\ clock < manager.token_expiry[1]) =>
          /\ provider_calls = manager.token_cache[1].id
          /\ \E h \in Handlers : Refreshed(h)
    /\ \A h \in Handlers :
          HoldsToken(h) =>
              /\ conn[h].access_token = manager.token_cache
              /\ conn[h].fetches = 0 => \E g \in Handlers \ {h} : Refreshed(g)

\* Two handlers are past get_cached_token at the same time with the same
\* token: one fetched it, after an earlier fetch had failed or not, and the
\* other was served from the cache.
C38_Witness ==
    \E h, g \in Handlers :
        /\ h # g
        /\ HoldsToken(h) /\ HoldsToken(g)
        /\ conn[h].fetches = 1 /\ conn[g].fetches = 0
        /\ conn[h].access_token = conn[g].access_token
        /\ provider_calls = 1

(* ---------------------- a session that was not created ---------------- *)

\* The config message went out, so the handler has been through
\* create_session; no document means that the call failed.
CreationFailed(h) == conn[h].echoes = 1 /\ ~SessionCreatedFor(h)

\* The connection has been through get_cached_token: it holds the answer, or
\* has gone on to connect(), or was closed for want of a credential.
AskedForCredential(h) ==
    \/ conn[h].fetches = 1
    \/ conn[h].connects = 1
    \/ conn[h].pc = "close_auth"
    \/ conn[h].close_reason = "Authentication failed"

\* C40: a connection whose create_session call failed goes on as one whose
\* call succeeded: it asks for the credential, connects and relays when it
\* gets one, is closed with "Authentication failed" when it gets none, and in
\* both cases has released its slot once when the handler is done.
C40_CreationFailureIsIgnored ==
    \A h \in Handlers :
        CreationFailed(h) =>
            /\ AskedForCredential(h)
            /\ conn[h].pc \in {"close_auth", "connect", "handshake", "relay",
                               "relay_goaway", "exit_upstream",
                               "exit_upstream_error", "close_error", "done"}
            /\ conn[h].pc \in {"close_auth", "done"} => conn[h].removes = 1
            /\ (conn[h].pc = "done" /\ conn[h].connects = 0) =>
                  (conn[h].close_code = 1011
                   /\ conn[h].close_reason = "Authentication failed")

\* A connection without a session document has been through the relay and
\* has released its slot, while another one without a document is relaying.
C40_Witness ==
    \E h, g \in Handlers :
        /\ CreationFailed(h) /\ conn[h].pc = "done" /\ conn[h].connects = 1
        /\ conn[h].close_code = 0 /\ conn[h].removes = 1
        /\ CreationFailed(g) /\ conn[g].pc = "relay"

(* ------------------------- teardown and the session ------------------- *)

\* C31: every session document created by the relay endpoint has endedAt set
\* by the time the teardown of its connection has completed (relay end,
\* timeout, error, or credential failure after the document was created).
C31_EndedAtSetAtTeardown ==
    \A h \in Handlers :
        (conn[h].pc = "done" /\ SessionCreatedFor(h))
            => Truthy(get_session(interview_sessions, conn[h].session_id)[1].endedAt)

\* The handler holds an upstream connection that connect() returned: it is
\* suspended in send(setup), in relay_messages or in the exit of the
\* async-with block.
UpstreamOpened(h) ==
    conn[h].pc \in {"handshake", "relay", "relay_goaway", "exit_upstream",
                    "exit_upstream_error"}

\* C32: per client connection the configuration is resolved at most once (the
\* token, then "default"), the credential is requested at most once, connect()
\* is called at most once and send(setup) is called exactly once on the
\* connection it returned; no failure, goAway or stored resumption handle
\* leads to a second connect() or a second setup message.
C32_OneOfEachPerConnection ==
    [][ \A h \in Handlers :
          LET c == conn[h]
              d == conn'[h]
          IN  /\ d.lookups # c.lookups => (c.lookups = 0 /\ d.lookups \in {1, 2})
              /\ d.lookups = 2 => ~HasActiveConfig(c.token)
              /\ d.fetches # c.fetches => (c.fetches = 0 /\ d.fetches = 1)
              /\ d.connects # c.connects => (c.connects = 0 /\ d.connects = 1)
              /\ c.pc = "connect" => d.pc \in {"connect", "handshake", "close_error"}
              /\ (d.pc = "handshake" /\ c.pc # "handshake") =>
                    (c.pc = "connect" /\ c.connects = 1)
              /\ (d.pc = "relay" /\ c.pc # "relay") => c.pc = "handshake"
              /\ (UpstreamOpened(h) \/ c.pc \in {"close_error", "done"}) =>
                    (d.pc \notin {"connect", "handshake"} \/ d.pc = c.pc)
      ]_vars

\* A connection is in relay_messages after its upstream offered a resumption
\* handle and announced goAway, and another connection was closed after a
\* failure past connect(); each has called connect() once.
C32_Witness ==
    \E h, g \in Handlers :
        /\ conn[h].pc = "relay_goaway" /\ conn[h].connects = 1
        /\ conn[g].pc = "done" /\ conn[g].connects = 1 /\ conn[g].close_code = 1011

(* ======================== history properties ========================== *)

\* What add_connection and remove_connection would make of the manager now.
AfterOneMore == { add_connection(manager, clock), remove_connection(manager, clock) }

\* C37: connection_history never holds more than 100 entries; an append below
\* capacity keeps every entry, an append at capacity drops the oldest entry
\* only, and in both cases the entries that stay keep their order in front of
\* the new one.
C37_HistoryBounded ==
    LET h == manager.connection_history
    IN  /\ Len(h) <= 100
        /\ \A m \in AfterOneMore :
              LET h2 == m.connection_history
              IN  /\ Len(h2) <= 100
                  /\ h2[Len(h2)].timestamp = clock
                  /\ IF Len(h) < 100
                     THEN Len(h2) = Len(h) + 1 /\ SubSeq(h2, 1, Len(h)) = h
                     ELSE Len(h2) = 100 /\ SubSeq(h2, 1, 99) = SubSeq(h, 2, 100)

\* The history is full and entries have been evicted: its oldest entry is no
\* longer the first connection's, and its newest entry is younger than its
\* oldest.
C37_Witness ==
    LET h == manager.connection_history
    IN  /\ Len(h) = 100
        /\ h[1].action = "disconnected"
        /\ h[100].action = "connected"
        /\ h[100].total = ServedBefore + MaxArrivals
        /\ h[1].timestamp < h[100].timestamp

(* ======================== session properties ========================== *)

\* The session under the id has been ended.
Ended(sid) ==
    /\ sid \in DOMAIN interview_sessions
    /\ interview_sessions[sid].endedAt # None

\* The collection with the session under the id not ended yet.
Reopened(sid) == [ interview_sessions EXCEPT ![sid].endedAt = None ]

\* C34: on a session that end_session has ended, log_latency and
\* log_network_quality are still accepted: each appends its entry, log_latency
\* sets the aggregates to what it would have set them to before the end, and
\* endedAt stays as it was.
C34_LoggingAfterEnd ==
    \A sid \in RequestIds :
        Ended(sid) =>
          LET doc == interview_sessions[sid]
          IN  /\ \A input \in LatencyInputs :
                    LET r    == log_latency(interview_sessions, sid, input[1], input[2], clock)
                        open == log_latency(Reopened(sid), sid, input[1], input[2], clock)
                    IN  /\ Len(r.sessions[sid].latencyLogs) = Len(doc.latencyLogs) + 1
                        /\ r.sessions[sid].endedAt = doc.endedAt
                        /\ r.ret = open.ret
                        /\ r.sessions = [ open.sessions EXCEPT ![sid].endedAt = doc.endedAt ]
              /\ \A sample \in NetworkSamples :
                    LET r    == log_network_quality(interview_sessions, sid,
                                                    sample[1], sample[2], clock)
                        open == log_network_quality(Reopened(sid), sid,
                                                    sample[1], sample[2], clock)
                    IN  /\ Len(r[sid].networkLogs) = Len(doc.networkLogs) + 1
                        /\ r[sid].endedAt = doc.endedAt
                        /\ r = [ open EXCEPT ![sid].endedAt = doc.endedAt ]

\* A session that was ended a minute ago holds a measurement and a sample that
\* were logged now, and its aggregates come from that measurement.
C34_Witness ==
    \E sid \in RequestIds :
        /\ Ended(sid)
        /\ interview_sessions[sid].endedAt[1] < clock
        /\ \E i \in 1..Len(interview_sessions[sid].latencyLogs) :
              /\ interview_sessions[sid].latencyLogs[i].timestamp = clock
              /\ interview_sessions[sid].latencyLogs[i].latencyMs = 450
        /\ interview_sessions[sid].averageLatencyMs = 450
        /\ \E i \in 1..Len(interview_sessions[sid].networkLogs) :
              interview_sessions[sid].networkLogs[i].timestamp = clock

\* C35: log_network_quality appends exactly one sample, the one it was given,
\* at the end of the session's networkLogs and changes nothing else: not
\* latencyLogs, not the three aggregates, not endedAt, no other session.
C35_NetworkSampleOnly ==
    \A sid \in DOMAIN interview_sessions : \A sample \in NetworkSamples :
        LET doc   == interview_sessions[sid]
            after == log_network_quality(interview_sessions, sid,
                                         sample[1], sample[2], clock)
            logs  == after[sid].networkLogs
        IN  /\ Len(logs) = Len(doc.networkLogs) + 1
            /\ SubSeq(logs, 1, Len(doc.networkLogs)) = doc.networkLogs
            /\ logs[Len(logs)].speedMbps = sample[1]
            /\ logs[Len(logs)].quality = sample[2]
            /\ after[sid].latencyLogs = doc.latencyLogs
            /\ after[sid].averageLatencyMs = doc.averageLatencyMs
            /\ after[sid].maxLatencyMs = doc.maxLatencyMs
            /\ after[sid].minLatencyMs = doc.minLatencyMs
            /\ after[sid].endedAt = doc.endedAt
            /\ [ after EXCEPT ![sid].networkLogs = doc.networkLogs ] = interview_sessions

\* An ended session holds two samples in the order "poor", "good" next to a
\* measurement whose aggregates are not those of any sample.
C35_Witness ==
    \E sid \in RequestIds :
        /\ Ended(sid)
        /\ Len(interview_sessions[sid].networkLogs) = 2
        /\ interview_sessions[sid].networkLogs[1].quality = "poor"
        /\ interview_sessions[sid].networkLogs[2].quality = "good"
        /\ Len(interview_sessions[sid].latencyLogs) = 1
        /\ interview_sessions[sid].minLatencyMs = 450

\* C36: log_latency returns aiStartTime - userEndTime and stores the same
\* number as latencyMs, negative and zero included, in one entry appended at
\* the end of latencyLogs; a session made by create_session has empty logs,
\* the three aggregates 0 and endedAt unset.
C36_LatencyStoredAsComputed ==
    /\ \A sid \in DOMAIN interview_sessions : \A input \in LatencyInputs :
          LET doc  == interview_sessions[sid]
              r    == log_latency(interview_sessions, sid, input[1], input[2], clock)
              logs == r.sessions[sid].latencyLogs
          IN  /\ r.ret = input[2] - input[1]
              /\ Len(logs) = Len(doc.latencyLogs) + 1
              /\ SubSeq(logs, 1, Len(doc.latencyLogs)) = doc.latencyLogs
              /\ logs[Len(logs)].latencyMs = input[2] - input[1]
              /\ logs[Len(logs)].userEndTime = input[1]
              /\ logs[Len(logs)].aiStartTime = input[2]
    /\ last_return # None =>
          \E input \in LatencyInputs : last_return[1] = input[2] - input[1]
    /\ \A sid \in RequestIds \ DOMAIN interview_sessions : \A tok \in Tokens :
          LET doc == create_session(interview_sessions, tok, sid, clock)[sid]
          IN  /\ doc.latencyLogs = << >>
              /\ doc.networkLogs = << >>
              /\ doc.averageLatencyMs = 0
              /\ doc.maxLatencyMs = 0
              /\ doc.minLatencyMs = 0
              /\ doc.endedAt = None

\* A session holds the latencies -3 and 0 in the order they were logged, and
\* the latest call returned 0.
C36_Witness ==
    \E sid \in RequestIds :
        /\ sid \in DOMAIN interview_sessions
        /\ Len(interview_sessions[sid].latencyLogs) = 2
        /\ interview_sessions[sid].latencyLogs[1].latencyMs = -3
        /\ interview_sessions[sid].latencyLogs[2].latencyMs = 0
        /\ interview_sessions[sid].minLatencyMs = -3
        /\ last_return = << 0 >>

\* C39: log_latency, log_network_quality and end_session under an id that has
\* no session create no document and change no session, so that get_session
\* still finds nothing under the id; log_latency returns the latency it
\* computed all the same.
C39_UnknownSessionUntouched ==
    \A sid \in RequestIds \ DOMAIN interview_sessions :
        /\ get_session(interview_sessions, sid) = None
        /\ \A input \in LatencyInputs :
              LET r == log_latency(interview_sessions, sid, input[1], input[2], clock)
              IN  /\ r.sessions = interview_sessions
                  /\ get_session(r.sessions, sid) = None
                  /\ r.ret = input[2] - input[1]
        /\ \A sample \in NetworkSamples :
              LET after == log_network_quality(interview_sessions, sid,
                                               sample[1], sample[2], clock)
              IN  after = interview_sessions /\ get_session(after, sid) = None
        /\ LET after == end_session(interview_sessions, sid, clock)
           IN  after = interview_sessions /\ get_session(after, sid) = None

\* log_latency has returned 450 although no session holds a measurement: the
\* call named an id without a session, which still has none, while the other
\* session is as it was.
C39_Witness ==
    /\ last_return = << 450 >>
    /\ TotalLogs(interview_sessions) = 0
    /\ get_session(interview_sessions, 2) = None
    /\ get_session(interview_sessions, 1) # None

(* ======================= instruction properties ======================= *)

HasOverride(config) ==
    "systemPrompt" \in DOMAIN config /\ config["systemPrompt"] # ""

\* C11: when the configuration carries a non-empty systemPrompt, the
\* instruction selected, and sent upstream in the setup message, is exactly
\* that text, whatever the other fields of the configuration are, and
\* generate_dynamic_prompt is not invoked.
C11_OverrideSentVerbatim ==
    HasOverride(prompt.config) =>
        /\ prompt.pc \in {"selected", "sent"} =>
              /\ prompt.system_prompt = << prompt.config["systemPrompt"] >>
              /\ ~prompt.generated
        /\ prompt.setup # None =>
              prompt.setup[1].systemInstruction = << prompt.config["systemPrompt"] >>

\* A setup message went upstream for a configuration that carries the override
\* next to a language that would otherwise change the instruction.
C11_Witness ==
    /\ prompt.pc = "sent"
    /\ HasOverride(prompt.config)
    /\ "language" \in DOMAIN prompt.config
    /\ prompt.config["language"] = "casual-hindi"
    /\ prompt.setup # None
    /\ prompt.setup[1].systemInstruction = << "X" >>

EchoKeys(message) ==
    DOMAIN message
    \cup DOMAIN message.config
    \cup UNION { DOMAIN message.config[k] :
                   k \in {"timing", "turnDetection", "ui", "recording", "interview"} }

\* Keys under which the configuration and the AI settings carry the
\* instruction text and the tuning values.
WithheldKeys ==
    { "systemPrompt", "system_prompt", "systemInstruction", "aiSettings",
      "voiceSpeed", "voicePitch", "temperature", "maxQuestions" }

\* C24: whatever the configuration, the config message sent to the client
\* carries the members type and config, and under config exactly timing,
\* turnDetection, ui, recording, interview, sessionId and candidateUuid; none of
\* its keys is one that carries the instruction text, the AI settings document
\* or voiceSpeed, voicePitch, temperature, maxQuestions, and none of the
\* optional texts under interview is the system prompt.
C24_ConfigMessageWithholdsPromptAndTuning ==
    \A i \in 1..Len(prompt.echo) :
        LET message == prompt.echo[i]
        IN  /\ DOMAIN message = {"type", "config"}
            /\ DOMAIN message.config =
                  { "timing", "turnDetection", "ui", "recording", "interview",
                    "sessionId", "candidateUuid" }
            /\ EchoKeys(message) \cap WithheldKeys = {}
            /\ \A k \in {"companyName", "jobRole", "candidateName"} :
                  message.config.interview[k] # prompt.system_prompt

\* A configuration with an override text and with all four tuning values set
\* has had its config message sent.
C24_Witness ==
    /\ prompt.pc = "selected"
    /\ prompt.echo # None
    /\ HasOverride(prompt.config)
    /\ "aiSettings" \in DOMAIN prompt.config
    /\ { "voiceSpeed", "voicePitch", "temperature", "maxQuestions" }
           \subseteq DOMAIN prompt.config["aiSettings"]
    /\ prompt.echo[1].config.timing.silenceWarning1Seconds = 30

\* The text has the piece.
Contains(text, piece) == \E i \in 1..Len(text) : text[i] = piece

\* Position of a piece that the text has.
IndexOf(text, piece) == CHOOSE i \in 1..Len(text) : text[i] = piece

\* The generated instruction of the connection, once it is built.
Generated == prompt.pc \in {"selected", "sent"} /\ prompt.generated

ProctoringOf(config) == dict_get(config, "proctoring", EmptyDict)

\* A proctoring flag as the code reads it: a missing flag counts as true.
FlagSet(proctoring, flag) ==
    IF flag \in DOMAIN proctoring THEN proctoring[flag] = TRUE ELSE TRUE

\* The four detectors: the flag, and the title of the rule.
Detectors ==
    { << "detectMultiplePeople", "1. Multiple People Detected" >>,
      << "detectPhone",          "2. Mobile Phone Usage" >>,
      << "detectLookingAway",    "3. Looking Away" >>,
      << "detectTabSwitch",      "4. Tab Switching" >> }

\* C26: the generated instruction has a detector's rule exactly when
\* proctoring.enabled and the detector's own flag are both true (a missing
\* flag counting as true), whatever the other three flags are.
C26_RuleIffEnabledAndOwnFlag ==
    Generated =>
        \A d \in Detectors :
            Contains(prompt.system_prompt, d[2])
               <=> ( /\ FlagSet(ProctoringOf(prompt.config), "enabled")
                     /\ FlagSet(ProctoringOf(prompt.config), d[1]) )

\* Proctoring is enabled with the phone detector alone switched off: the
\* instruction has the three other rules.
C26_Witness ==
    /\ Generated
    /\ ProctoringOf(prompt.config) =
          [ enabled |-> TRUE, detectMultiplePeople |-> TRUE, detectPhone |-> FALSE,
            detectLookingAway |-> TRUE, detectTabSwitch |-> TRUE ]
    /\ Contains(prompt.system_prompt, "1. Multiple People Detected")
    /\ ~Contains(prompt.system_prompt, "2. Mobile Phone Usage")
    /\ Contains(prompt.system_prompt, "3. Looking Away")
    /\ Contains(prompt.system_prompt, "4. Tab Switching")

DisabledSentence == "Proctoring is disabled for this interview."

\* C27: the generated instruction has the sentence "Proctoring is disabled for
\* this interview." exactly when proctoring.enabled is false, and then has no
\* detector rule; with proctoring.enabled true it does not have the sentence,
\* whatever the four flags are.
C27_DisabledSentenceIffDisabled ==
    Generated =>
        /\ Contains(prompt.system_prompt, DisabledSentence)
              <=> ~FlagSet(ProctoringOf(prompt.config), "enabled")
        /\ Contains(prompt.system_prompt, DisabledSentence)
              => \A d \in Detectors : ~Contains(prompt.system_prompt, d[2])

CasualHeader  == "CRITICAL MANDATORY LANGUAGE RULE: SPEAK ONLY IN CASUAL HINDI (Hinglish)"
DefaultHeader == "LANGUAGE: INDIAN ENGLISH"

\* First pieces of the sections after the language header: business context,
\* difficulty, proctoring, silence handling, closing structure.
SectionHeadings ==
    << "You are conducting a real-time technical interview for",
       "EXPERIENCE-BASED DIFFICULTY:",
       "PROCTORING & MONITORING:",
       "SILENT USER DETECTION:",
       "Interview Structure:" >>

Occurrences(text, piece) == Cardinality({ i \in 1..Len(text) : text[i] = piece })

\* C28: the generated instruction opens with the language header, the casual
\* Hindi block exactly when language is "casual-hindi" and the Indian English
\* block for every other value and for a missing one; after it come, once each
\* and in this order, business context, difficulty, proctoring, silence
\* handling and closing structure, the difficulty fragment and the proctoring
\* rules (or the sentence that stands for them) lying in their own sections.
C28_HeaderFirstSectionsInOrder ==
    Generated =>
        LET text == prompt.system_prompt
            at(k) == IndexOf(text, SectionHeadings[k])
        IN  /\ text[1] = IF dict_get_opt(prompt.config, "language") = << "casual-hindi" >>
                          THEN CasualHeader ELSE DefaultHeader
            /\ Occurrences(text, CasualHeader) + Occurrences(text, DefaultHeader) = 1
            /\ \A k \in 1..5 : Occurrences(text, SectionHeadings[k]) = 1
            /\ at(1) = 2
            /\ \A k \in 1..4 : at(k) < at(k + 1)
            /\ at(3) = at(2) + 2
            /\ \A i \in 1..Len(text) :
                  (text[i] = DisabledSentence \/ \E d \in Detectors : text[i] = d[2])
                     => (at(3) < i /\ i < at(4))
            /\ at(4) > at(3) + 1

\* The instruction was generated for a language the builder does not know.
C28_Witness ==
    /\ Generated
    /\ dict_get_opt(prompt.config, "language") = << "tamil" >>
    /\ prompt.system_prompt[1] = DefaultHeader
    /\ Len(prompt.system_prompt) > 20

\* The five buckets and the sentence of each.
DifficultySentences ==
    [ bucket \in {"0-1", "1-3", "3-5", "5-10", "10+"} |->
        CASE bucket = "0-1"  ->
               "Ask beginner-friendly questions. Focus on fundamentals, basic concepts, and willingness to learn."
          [] bucket = "1-3"  ->
               "Ask intermediate questions. Focus on practical experience, problem-solving, and coding skills."
          [] bucket = "3-5"  ->
               "Ask mid-level questions. Include system design basics, architecture decisions, and leadership potential."
          [] bucket = "5-10" ->
               "Ask senior-level questions. Focus on system design, architecture, mentoring, and strategic thinking."
          [] bucket = "10+"  ->
               "Ask principal/lead-level questions. Focus on large-scale system design, organizational impact, and technical vision." ]

\* The piece that follows the difficulty heading.
DifficultyFragment(text) == text[IndexOf(text, SectionHeadings[2]) + 1]

\* C29: the difficulty fragment of the generated instruction is the sentence
\* of the bucket that yearsOfExperience equals ("1-3" when the field is
\* missing), the five sentences being different from one another and the one
\* of "10+" being the principal/lead-level sentence; for every other value the
\* fragment is empty.
C29_DifficultyByExactBucket ==
    /\ Cardinality({ DifficultySentences[b] : b \in DOMAIN DifficultySentences }) = 5
    /\ Generated =>
          LET experience == dict_get(prompt.config, "yearsOfExperience", "1-3")
          IN  DifficultyFragment(prompt.system_prompt) =
                 IF experience \in DOMAIN DifficultySentences
                 THEN DifficultySentences[experience]
                 ELSE ""

\* The instruction was generated for yearsOfExperience "10", which is none of
\* the buckets, and its difficulty fragment is empty.
C29_Witness ==
    /\ Generated
    /\ dict_get_opt(prompt.config, "yearsOfExperience") = << "10" >>
    /\ DifficultyFragment(prompt.system_prompt) = ""

(* ========================= relay properties =========================== *)

\* The step reads frame f from upstream / from the browser.
ReadsFromUpstream(f) == relay'.s2c_received = Append(relay.s2c_received, f)
ReadsFromClient(f)   == relay'.c2s_received = Append(relay.c2s_received, f)

\* The step forwards a frame, in one direction or the other.
ForwardsToClient   == relay'.s2c_forwarded # relay.s2c_forwarded
ForwardsToUpstream == relay'.c2s_forwarded # relay.c2s_forwarded

\* f carries sessionResumptionUpdate with resumable true and a non-empty
\* newHandle.
IsResumableUpdate(f) ==
    /\ f.syntax = "object"
    /\ "sessionResumptionUpdate" \in DOMAIN f.members
    /\ "resumable" \in DOMAIN f.members["sessionResumptionUpdate"]
    /\ f.members["sessionResumptionUpdate"]["resumable"] = TRUE
    /\ "newHandle" \in DOMAIN f.members["sessionResumptionUpdate"]
    /\ f.members["sessionResumptionUpdate"]["newHandle"] # ""

IsGoAway(f) == f.syntax = "object" /\ "goAway" \in DOMAIN f.members

IsPrefix(xs, ys) == Len(xs) <= Len(ys) /\ \A i \in 1..Len(xs) : xs[i] = ys[i]

\* C13: session_handle changes only in a step of the upstream pump that reads
\* a sessionResumptionUpdate with resumable true and a non-empty newHandle, and
\* then becomes that newHandle; every other step leaves it as it was.
C13_HandleFollowsResumableUpdates ==
    [][ /\ \A f \in UpstreamFrames :
              (ReadsFromUpstream(f) /\ IsResumableUpdate(f)) =>
                  relay'.session_handle =
                      << f.members["sessionResumptionUpdate"]["newHandle"] >>
        /\ (~ \E f \in UpstreamFrames : ReadsFromUpstream(f) /\ IsResumableUpdate(f))
              => relay'.session_handle = relay.session_handle
      ]_vars

\* The handle "h1" was stored, and kept while an update that is not resumable
\* offered "h2".
C13_Witness ==
    /\ relay.session_handle = << "h1" >>
    /\ Len(relay.s2c_received) = 2
    /\ IsResumableUpdate(relay.s2c_received[1])
    /\ "sessionResumptionUpdate" \in DOMAIN relay.s2c_received[2].members
    /\ relay.s2c_received[2].members["sessionResumptionUpdate"] =
           [ resumable |-> FALSE, newHandle |-> "h2" ]

\* C14: reading a goAway frame leaves session_handle as it was, leaves the
\* upstream pump running with that very frame to send, leaves the other pump
\* and the upstream connection alone and opens no connection; the frame then
\* goes to the browser as it was read.
C14_GoAwayOnlyForwarded ==
    [][ /\ \A f \in UpstreamFrames :
              (ReadsFromUpstream(f) /\ IsGoAway(f)) =>
                  /\ relay'.session_handle = relay.session_handle
                  /\ relay'.s2c = PumpSending(f)
                  /\ relay'.c2s = relay.c2s
                  /\ relay'.pc = "relay"
                  /\ relay'.upstream = relay.upstream
                  /\ relay'.connects = relay.connects
        /\ ( /\ relay.s2c.pc = "sending"
             /\ IsGoAway(relay.s2c.pending[1])
             /\ ForwardsToClient ) =>
                  /\ relay'.s2c_forwarded =
                        Append(relay.s2c_forwarded, relay.s2c.pending[1])
                  /\ relay'.s2c.pc = "receiving"
                  /\ relay'.c2s = relay.c2s
                  /\ relay'.session_handle = relay.session_handle
                  /\ relay'.connects = relay.connects
      ]_vars

\* After the handle "h1" was stored a goAway frame was read and forwarded; the
\* handle is still there and both pumps are still running.
C14_Witness ==
    /\ relay.pc = "relay"
    /\ relay.session_handle = << "h1" >>
    /\ Len(relay.s2c_forwarded) = 2
    /\ IsResumableUpdate(relay.s2c_forwarded[1])
    /\ IsGoAway(relay.s2c_forwarded[2])
    /\ relay.s2c.pc = "receiving"
    /\ relay.c2s.pc # "ended"
    /\ relay.connects = 1

\* C15: a frame from upstream that is not JSON is not dropped: it has been
\* forwarded, or it is the one being sent, or its send is what failed or was
\* cancelled; the pump does not end over it.
C15_UnparsableUpstreamFrameForwarded ==
    \A i \in 1..Len(relay.s2c_received) :
        relay.s2c_received[i].syntax = "invalid" =>
            \/ i <= Len(relay.s2c_forwarded)
            \/ /\ i = Len(relay.s2c_received)
               /\ \/ relay.s2c.pc = "sending"
                  \/ relay.s2c.ended_by \in {"send_failed", "cancelled"}

\* C16: every frame read from the browser, whatever its content, has been
\* forwarded upstream unchanged, or is the one being sent, or its send is
\* what failed or was cancelled; the pump does not end over its content.
C16_EveryClientFrameForwarded ==
    \A i \in 1..Len(relay.c2s_received) :
        \/ i <= Len(relay.c2s_forwarded) /\ relay.c2s_forwarded[i] = relay.c2s_received[i]
        \/ /\ i = Len(relay.c2s_received)
           /\ \/ relay.c2s.pc = "sending"
              \/ relay.c2s.ended_by \in {"send_failed", "cancelled"}

\* C17: in each direction the frames forwarded are, at every moment, a prefix
\* of the frames read, and the frame being sent is the one read last.
C17_ForwardedIsPrefixOfReceived ==
    /\ IsPrefix(relay.c2s_forwarded, relay.c2s_received)
    /\ IsPrefix(relay.s2c_forwarded, relay.s2c_received)
    /\ relay.c2s.pc = "sending" =>
          /\ Len(relay.c2s_received) = Len(relay.c2s_forwarded) + 1
          /\ relay.c2s.pending[1] = relay.c2s_received[Len(relay.c2s_received)]
    /\ relay.s2c.pc = "sending" =>
          /\ Len(relay.s2c_received) = Len(relay.s2c_forwarded) + 1
          /\ relay.s2c.pending[1] = relay.s2c_received[Len(relay.s2c_received)]

\* Two different frames went to the browser and one went upstream.
C17_Witness ==
    /\ Len(relay.s2c_forwarded) = 2
    /\ relay.s2c_forwarded[1] # relay.s2c_forwarded[2]
    /\ Len(relay.c2s_forwarded) = 1

\* C18: once one pump has ended the other forwards nothing more.
C18_SiblingStopsWithFirstPump ==
    [][ (relay.c2s.pc = "ended" \/ relay.s2c.pc = "ended") =>
            ~(ForwardsToClient \/ ForwardsToUpstream)
      ]_vars

\* The time of acceptance: add_connection runs when accept() returns (line 406).
AcceptedAt == manager.connection_history[1].timestamp

\* C19: no frame is forwarded, in either direction, later than
\* CONNECTION_TIMEOUT after the connection was accepted.
C19_NoForwardAfterTimeoutFromAcceptance ==
    [][ (ForwardsToClient \/ ForwardsToUpstream) =>
            clock <= AcceptedAt + CONNECTION_TIMEOUT
      ]_vars

\* C20: once connect() has returned, the upstream connection is closed by the
\* time the handler releases its slot and by the time it has finished,
\* whichever way it leaves.
C20_UpstreamClosedBeforeRelease ==
    /\ relay.connects <= 1
    /\ relay.upstream = "none" => relay.pc \in {"none", "connect", "close_error", "done"}
    /\ (relay.removes > 0 \/ relay.pc = "done") => relay.upstream # "open"
    /\ relay.pc = "close_error" => relay.upstream # "open"

\* The browser went away: receive_text raised WebSocketDisconnect.
ClientDisconnected == relay.c2s.ended_by = "source_closed"

\* The upstream service closed its connection under the reading pump.
UpstreamDisconnected == relay.s2c.ended_by = "source_closed"

\* The handler has returned; the server closes the client's socket when the
\* endpoint returns, if the client has not closed it already.
HandlerFinished == relay.pc = "done"

\* C30: after the browser has disconnected the upstream connection is
\* eventually closed, and after the upstream service has closed its connection
\* the handler eventually finishes (which ends the client link), also when the
\* other peer sends nothing more and never closes.
C30_DisconnectLeadsToTeardown ==
    /\ ClientDisconnected ~> (relay.upstream = "closed")
    /\ UpstreamDisconnected ~> (HandlerFinished /\ relay.upstream = "closed")

\* The browser disconnected before the upstream service had sent anything; the
\* service stayed silent, the reading pump was cancelled at the deadline and
\* the upstream connection was closed.
C30_Witness ==
    /\ ClientDisconnected
    /\ relay.s2c_received = << >>
    /\ relay.s2c.ended_by = "cancelled"
    /\ relay.upstream = "closed"
    /\ HandlerFinished
    /\ clock = Deadline

\* The relay ran into its deadline with a pump still running; the upstream
\* connection is closed and the slot released.
C20_Witness ==
    /\ relay.pc = "done"
    /\ relay.upstream = "closed"
    /\ relay.removes = 1
    /\ manager.active_connections = 0
    /\ relay.s2c.ended_by = "cancelled"
    /\ clock = relay.started_at + CONNECTION_TIMEOUT

\* The upstream has acknowledged the setup message.
SetupAcknowledged ==
    \E i \in 1..Len(relay.s2c_received) :
        relay.s2c_received[i] = Frame("object", [ setupComplete |-> EmptyDict ])

\* C33: the setup message is the first message sent on the upstream
\* connection and is sent once, before any client frame is forwarded; both
\* pumps are started together, right after it was sent, and forwarding client
\* frames does not wait for the upstream's setupComplete.
C33_SetupFirstThenBothPumps ==
    /\ relay.upstream_sent # << >> =>
          /\ Head(relay.upstream_sent) = SetupFrame
          /\ Tail(relay.upstream_sent) = relay.c2s_forwarded
    /\ relay.upstream_sent = << >> =>
          (relay.c2s_forwarded = << >> /\ relay.c2s_received = << >>
           /\ relay.s2c_received = << >>)
    /\ (relay.c2s.pc = "idle") <=> (relay.s2c.pc = "idle")
    /\ (relay.c2s.pc = "idle") <=> (relay.upstream_sent = << >>)
    /\ relay.pc = "relay" => relay.upstream_sent # << >>
    /\ relay.c2s.pc = "sending" => relay.pc \in {"relay"}

\* A client frame has gone upstream, right behind the setup message, while no
\* setupComplete has been received; the server2client pump runs too.
C33_Witness ==
    /\ Len(relay.upstream_sent) = 2
    /\ relay.c2s_forwarded # << >>
    /\ ~SetupAcknowledged
    /\ relay.s2c.pc = "receiving"

====
